---- MODULE Spec2Model ----
(***************************************************************************)
(* Verification model of the nhl package: the enumerated code types, the   *)
(* Season, GameID and GameDate codecs, the game situation code and the     *)
(* recent plays of the play-by-play feed, the aggregation of the players'  *)
(* box score lines into team totals, the client's getJSON with its error   *)
(* types and the standings and schedule calls built on it, and goroutines  *)
(* sharing a GameDate.                                                     *)
(*                                                                         *)
(* Go strings that are only compared are TLA+ strings; Go strings that are *)
(* split, sliced or parsed are sequences of one-character strings.         *)
(* A JSON value handed to UnmarshalJSON is a token:                        *)
(*   [k |-> "str", s]  a JSON string with content s                        *)
(*   [k |-> "num", n]  a JSON integer n that the Go integer type holds     *)
(*   [k |-> "null"]    the JSON literal null                               *)
(*   [k |-> "bad"]     any other JSON (true, 1.5, {...}) or malformed input*)
(***************************************************************************)
EXTENDS Integers, Sequences, FiniteSets, TLC

VARIABLES ev, eres, scopy, season, sres, gid, gres, gd, dres, clock, sit,
          cres, team, tstats, tres, pbp, rres, cl, reqs, mem, gor

vars ==
  <<ev, eres, scopy, season, sres, gid, gres, gd, dres, clock, sit, cres,
    team, tstats, tres, pbp, rres, cl, reqs, mem, gor>>

\* What the calls on one type leave alone: the state of the other types.
EnumFrame ==
  <<scopy, season, sres, gid, gres, gd, dres, clock, sit, cres, team,
    tstats, tres, pbp, rres, cl, reqs, mem, gor>>

SeasonFrame ==
  <<ev, eres, gid, gres, gd, dres, clock, sit, cres, team, tstats, tres,
    pbp, rres, cl, reqs, mem, gor>>

GameIDFrame ==
  <<ev, eres, scopy, season, sres, gd, dres, clock, sit, cres, team, tstats,
    tres, pbp, rres, cl, reqs, mem, gor>>

GameDateFrame ==
  <<ev, eres, scopy, season, sres, gid, gres, sit, cres, team, tstats, tres,
    pbp, rres, cl, reqs, mem, gor>>

GameSituationFrame ==
  <<ev, eres, scopy, season, sres, gid, gres, gd, dres, clock, team, tstats,
    tres, pbp, rres, cl, reqs, mem, gor>>

TeamStatsFrame ==
  <<ev, eres, scopy, season, sres, gid, gres, gd, dres, clock, sit, cres,
    pbp, rres, cl, reqs, mem, gor>>

PlayByPlayFrame ==
  <<ev, eres, scopy, season, sres, gid, gres, gd, dres, clock, sit, cres,
    team, tstats, tres, cl, reqs, mem, gor>>

ClientFrame ==
  <<ev, eres, scopy, season, sres, gid, gres, gd, dres, clock, sit, cres,
    team, tstats, tres, pbp, rres, mem, gor>>

ConcurrentFrame ==
  <<ev, eres, scopy, season, sres, gid, gres, gd, dres, clock, sit, cres,
    team, tstats, tres, pbp, rres, cl, reqs>>

StrTok(s) == [k |-> "str", s |-> s]

NumTok(n) == [k |-> "num", n |-> n]

NullTok == [k |-> "null"]

BadTok == [k |-> "bad"]

Ok(v) == [err |-> FALSE, val |-> v]

\* json.Unmarshal(data, &s) for a Go string s that starts empty (empty is
\* "" or <<>>): a JSON string sets s, null is a no-op, anything else is an
\* error.
JSONToString(data, empty) ==
  CASE data.k = "str" -> [err |-> FALSE, val |-> data.s]
    [] data.k = "null" -> [err |-> FALSE, val |-> empty]
    [] OTHER -> [err |-> TRUE, val |-> empty]

\* json.Unmarshal(data, &i) for a Go integer i that starts as zero:
\* a JSON integer sets i, null is a no-op, anything else is an error.
JSONToInt(data, zero) ==
  CASE data.k = "num" -> [err |-> FALSE, val |-> data.n]
    [] data.k = "null" -> [err |-> FALSE, val |-> zero]
    [] OTHER -> [err |-> TRUE, val |-> zero]

(***************************************************************************)
(* Go strings as sequences of one-character strings, strconv and fmt       *)
(***************************************************************************)

Digits == <<"0", "1", "2", "3", "4", "5", "6", "7", "8", "9">>

IsDigit(c) == \E i \in 1 .. 10 : Digits[i] = c

AllDigits(s) == \A i \in 1 .. Len(s) : IsDigit(s[i])

DigitVal(c) == (CHOOSE i \in 1 .. 10 : Digits[i] = c) - 1

RECURSIVE DigitsValue(_)
\* The number a sequence of decimal digits denotes.
DigitsValue(s) ==
  IF s = <<>> THEN 0
  ELSE DigitsValue(SubSeq(s, 1, Len(s) - 1)) * 10 + DigitVal(s[Len(s)])

RECURSIVE StripZeros(_)
StripZeros(s) ==
  IF s # <<>> /\ s[1] = "0" THEN StripZeros(Tail(s)) ELSE s

\* The decimal digits of 1<<63 - 1 and of 1<<63.
MaxInt64Digits ==
  <<"9", "2", "2", "3", "3", "7", "2", "0", "3", "6", "8", "5", "4", "7",
    "7", "5", "8", "0", "7">>

MinInt64Digits ==
  <<"9", "2", "2", "3", "3", "7", "2", "0", "3", "6", "8", "5", "4", "7",
    "7", "5", "8", "0", "8">>

RECURSIVE DigitsLeq(_, _)
\* a <= b for two digit sequences of the same length.
DigitsLeq(a, b) ==
  IF a = <<>> THEN TRUE
  ELSE IF a[1] = b[1] THEN DigitsLeq(Tail(a), Tail(b))
  ELSE DigitVal(a[1]) < DigitVal(b[1])

\* The digits (no sign) denote a magnitude a 64-bit signed integer holds.
FitsInt64(neg, digits) ==
  LET sig == StripZeros(digits) IN
  \/ Len(sig) < 19
  \/ /\ Len(sig) = 19
     /\ DigitsLeq(sig, IF neg THEN MinInt64Digits ELSE MaxInt64Digits)

\* strconv.Atoi / strconv.ParseInt(s, 10, 64) up to the value: an optional
\* sign, then at least one decimal digit and nothing else; a magnitude that
\* does not fit 64 bits is a range error.  kind is "" (no error), "syntax"
\* or "range".
AtoiShape(s) ==
  LET signed == s # <<>> /\ s[1] \in {"+", "-"}
      neg == s # <<>> /\ s[1] = "-"
      body == IF signed THEN Tail(s) ELSE s
  IN IF body = <<>> \/ \E i \in 1 .. Len(body) : ~IsDigit(body[i])
     THEN [kind |-> "syntax", neg |-> neg, body |-> body]
     ELSE IF ~FitsInt64(neg, body)
     THEN [kind |-> "range", neg |-> neg, body |-> body]
     ELSE [kind |-> "", neg |-> neg, body |-> body]

\* strconv.Atoi.  On a syntax error the value is 0; on a range error Go
\* returns the saturated value, which no caller in the package reads.
Atoi(s) ==
  LET sh == AtoiShape(s) IN
  IF sh.kind # "" THEN [err |-> TRUE, val |-> 0]
  ELSE [err |-> FALSE,
        val |-> IF sh.neg THEN 0 - DigitsValue(sh.body)
                ELSE DigitsValue(sh.body)]

RECURSIVE FormatNat(_)
FormatNat(n) ==
  IF n < 10 THEN <<Digits[n + 1]>>
  ELSE FormatNat(n \div 10) \o <<Digits[(n % 10) + 1]>>

\* fmt.Sprintf("%d", n)
FormatInt(n) == IF n < 0 THEN <<"-">> \o FormatNat(0 - n) ELSE FormatNat(n)

\* strings.Contains(s, c) for a one-character c
Contains(s, c) == \E i \in 1 .. Len(s) : s[i] = c

RECURSIVE Split(_, _)
\* strings.Split(s, c) for a one-character separator c
Split(s, c) ==
  IF ~Contains(s, c) THEN <<s>>
  ELSE LET i == CHOOSE k \in 1 .. Len(s) :
                  s[k] = c /\ \A j \in 1 .. k - 1 : s[j] # c
       IN <<SubSeq(s, 1, i - 1)>> \o Split(SubSeq(s, i + 1, Len(s)), c)

(***************************************************************************)
(* Enumerated code types                                                   *)
(***************************************************************************)

\* The constants of each enumerated type.
EnumKnown(t) ==
  CASE t = "Position" ->
         {"C", "LW", "RW", "D", "G"}
    [] t = "Handedness" ->
         {"L", "R"}
    [] t = "GoalieDecision" ->
         {"W", "L", "T", "OTL"}
    [] t = "PeriodType" ->
         {"REG", "OT", "SO"}
    [] t = "HomeRoad" ->
         {"H", "R"}
    [] t = "ZoneCode" ->
         {"O", "D", "N"}
    [] t = "DefendingSide" ->
         {"left", "right"}
    [] t = "GameScheduleState" ->
         {"OK", "DONT_PLAY", "PPD", "SUSP", "TBD", "COMPLETED", "CNCL"}
    [] t = "PlayEventType" ->
         {"game-start", "period-start", "period-end", "game-end",
         "faceoff", "hit", "giveaway", "takeaway", "shot-on-goal",
         "missed-shot", "blocked-shot", "goal", "penalty", "stoppage",
         "delayed-penalty", "failed-shot-attempt", "shootout-complete",
         "unknown"}
    [] t = "GameState" ->
         {"FUT", "PRE", "LIVE", "FINAL", "OFF", "PPD", "SUSP", "CRIT"}
    [] t = "GameType" ->
         {1, 2, 3, 4, 9, 10, 12, 19, 20}

\* ---- Position ----

PositionIsValidLax(p) == p \in EnumKnown("Position") \cup {""}

PositionIsValid(p) ==
  p = "C" \/ p = "LW" \/ p = "RW" \/ p = "D" \/ p = "G"

IsForward(p) == p = "C" \/ p = "LW" \/ p = "RW"

\* An IsSkater that only excludes the goalie.
IsSkaterNotGoalie(p) == p # "G"

IsSkater(p) == p # "G" /\ PositionIsValid(p)

\* A parser that accepts the full names only, not the codes.
PositionFromStringNames(s) ==
  CASE s = "Center" -> Ok("C")
    [] s \in {"Left Wing", "LeftWing"} -> Ok("LW")
    [] s \in {"Right Wing", "RightWing"} -> Ok("RW")
    [] s \in {"Defense", "Defenseman"} -> Ok("D")
    [] s \in {"Goalie", "Goaltender"} -> Ok("G")
    [] OTHER -> [err |-> TRUE, val |-> ""]

PositionFromString(s) ==
  CASE s \in {"C", "Center"} -> Ok("C")
    [] s \in {"L", "LW", "Left Wing", "LeftWing"} -> Ok("LW")
    [] s \in {"R", "RW", "Right Wing", "RightWing"} -> Ok("RW")
    [] s \in {"D", "Defense", "Defenseman"} -> Ok("D")
    [] s \in {"G", "Goalie", "Goaltender"} -> Ok("G")
    [] OTHER -> [err |-> TRUE, val |-> ""]

PositionUnmarshalJSON(p, data) ==
  LET s == JSONToString(data, "") IN
  IF s.err THEN [err |-> TRUE, val |-> p]
  ELSE LET r == PositionFromString(s.val) IN
       IF r.err THEN [err |-> TRUE, val |-> p] ELSE Ok(r.val)

PositionMarshalJSON(p) ==
  IF ~PositionIsValid(p) THEN [err |-> TRUE, data |-> NullTok]
  ELSE [err |-> FALSE, data |-> StrTok(p)]

\* ---- Handedness ----

HandednessIsValid(h) == h = "L" \/ h = "R"

HandednessFromString(s) ==
  CASE s \in {"L", "Left"} -> Ok("L")
    [] s \in {"R", "Right"} -> Ok("R")
    [] OTHER -> [err |-> TRUE, val |-> ""]

HandednessUnmarshalJSON(h, data) ==
  LET s == JSONToString(data, "") IN
  IF s.err THEN [err |-> TRUE, val |-> h]
  ELSE IF s.val = "" THEN Ok("")
  ELSE LET r == HandednessFromString(s.val) IN
       IF r.err THEN [err |-> TRUE, val |-> h] ELSE Ok(r.val)

HandednessMarshalJSON(h) == [err |-> FALSE, data |-> StrTok(h)]

\* ---- GoalieDecision ----

GoalieDecisionIsValid(g) == g = "W" \/ g = "L" \/ g = "T" \/ g = "OTL"

GoalieDecisionFromString(s) ==
  CASE s \in {"W", "Win"} -> Ok("W")
    [] s \in {"L", "Loss"} -> Ok("L")
    [] s \in {"T", "Tie"} -> Ok("T")
    [] s \in {"O", "OTL", "Overtime Loss", "OvertimeLoss"} -> Ok("OTL")
    [] OTHER -> [err |-> TRUE, val |-> ""]

GoalieDecisionUnmarshalJSON(g, data) ==
  LET s == JSONToString(data, "") IN
  IF s.err THEN [err |-> TRUE, val |-> g]
  ELSE LET r == GoalieDecisionFromString(s.val) IN
       IF r.err THEN [err |-> TRUE, val |-> g] ELSE Ok(r.val)

GoalieDecisionMarshalJSON(g) ==
  IF ~GoalieDecisionIsValid(g) THEN [err |-> TRUE, data |-> NullTok]
  ELSE [err |-> FALSE, data |-> StrTok(g)]

\* ---- PeriodType ----

PeriodTypeIsValid(p) == p = "REG" \/ p = "OT" \/ p = "SO"

IsOvertime(p) == p = "OT" \/ p = "SO"

PeriodTypeFromString(s) ==
  CASE s \in {"REG", "Regulation"} -> Ok("REG")
    [] s \in {"OT", "Overtime"} -> Ok("OT")
    [] s \in {"SO", "Shootout"} -> Ok("SO")
    [] OTHER -> [err |-> TRUE, val |-> ""]

PeriodTypeUnmarshalJSON(p, data) ==
  LET s == JSONToString(data, "") IN
  IF s.err THEN [err |-> TRUE, val |-> p]
  ELSE LET r == PeriodTypeFromString(s.val) IN
       IF r.err THEN [err |-> TRUE, val |-> p] ELSE Ok(r.val)

PeriodTypeMarshalJSON(p) ==
  IF ~PeriodTypeIsValid(p) THEN [err |-> TRUE, data |-> NullTok]
  ELSE [err |-> FALSE, data |-> StrTok(p)]

\* ---- HomeRoad ----

HomeRoadIsValid(h) == h = "H" \/ h = "R"

HomeRoadFromString(s) ==
  CASE s \in {"H", "Home"} -> Ok("H")
    [] s \in {"R", "Road", "Away"} -> Ok("R")
    [] OTHER -> [err |-> TRUE, val |-> ""]

HomeRoadUnmarshalJSON(h, data) ==
  LET s == JSONToString(data, "") IN
  IF s.err THEN [err |-> TRUE, val |-> h]
  ELSE LET r == HomeRoadFromString(s.val) IN
       IF r.err THEN [err |-> TRUE, val |-> h] ELSE Ok(r.val)

HomeRoadMarshalJSON(h) ==
  IF ~HomeRoadIsValid(h) THEN [err |-> TRUE, data |-> NullTok]
  ELSE [err |-> FALSE, data |-> StrTok(h)]

\* ---- ZoneCode ----

ZoneCodeIsValid(z) == z = "O" \/ z = "D" \/ z = "N"

ZoneCodeFromString(s) ==
  CASE s \in {"O", "Offensive"} -> Ok("O")
    [] s \in {"D", "Defensive"} -> Ok("D")
    [] s \in {"N", "Neutral"} -> Ok("N")
    [] OTHER -> [err |-> TRUE, val |-> ""]

ZoneCodeUnmarshalJSON(z, data) ==
  LET s == JSONToString(data, "") IN
  IF s.err THEN [err |-> TRUE, val |-> z]
  ELSE LET r == ZoneCodeFromString(s.val) IN
       IF r.err THEN [err |-> TRUE, val |-> z] ELSE Ok(r.val)

ZoneCodeMarshalJSON(z) ==
  IF ~ZoneCodeIsValid(z) THEN [err |-> TRUE, data |-> NullTok]
  ELSE [err |-> FALSE, data |-> StrTok(z)]

\* ---- DefendingSide ----

DefendingSideIsValid(d) == d = "left" \/ d = "right"

DefendingSideFromString(s) ==
  CASE s = "left" -> Ok("left")
    [] s = "right" -> Ok("right")
    [] OTHER -> [err |-> TRUE, val |-> ""]

DefendingSideUnmarshalJSON(d, data) ==
  LET s == JSONToString(data, "") IN
  IF s.err THEN [err |-> TRUE, val |-> d]
  ELSE LET r == DefendingSideFromString(s.val) IN
       IF r.err THEN [err |-> TRUE, val |-> d] ELSE Ok(r.val)

DefendingSideMarshalJSON(d) ==
  IF d = "" THEN [err |-> FALSE, data |-> StrTok("")]
  ELSE IF ~DefendingSideIsValid(d) THEN [err |-> TRUE, data |-> NullTok]
  ELSE [err |-> FALSE, data |-> StrTok(d)]

\* ---- GameScheduleState ----

GameScheduleStateIsValid(g) ==
  g = "OK" \/ g = "DONT_PLAY" \/ g = "PPD" \/ g = "SUSP" \/ g = "TBD"
    \/ g = "COMPLETED" \/ g = "CNCL"

GameScheduleStateFromString(s) ==
  IF ~GameScheduleStateIsValid(s) THEN [err |-> TRUE, val |-> ""] ELSE Ok(s)

GameScheduleStateUnmarshalJSON(g, data) ==
  LET s == JSONToString(data, "") IN
  IF s.err THEN [err |-> TRUE, val |-> g]
  ELSE LET r == GameScheduleStateFromString(s.val) IN
       IF r.err THEN [err |-> TRUE, val |-> g] ELSE Ok(r.val)

GameScheduleStateMarshalJSON(g) ==
  IF ~GameScheduleStateIsValid(g) THEN [err |-> TRUE, data |-> NullTok]
  ELSE [err |-> FALSE, data |-> StrTok(g)]

\* ---- PlayEventType ----

PlayEventTypeIsValid(p) ==
  p = "game-start" \/ p = "period-start" \/ p = "period-end"
    \/ p = "game-end" \/ p = "faceoff" \/ p = "hit" \/ p = "giveaway"
    \/ p = "takeaway" \/ p = "shot-on-goal" \/ p = "missed-shot"
    \/ p = "blocked-shot" \/ p = "goal" \/ p = "penalty" \/ p = "stoppage"
    \/ p = "delayed-penalty" \/ p = "failed-shot-attempt"
    \/ p = "shootout-complete" \/ p = "unknown"

IsScoringChance(p) ==
  CASE p \in {"shot-on-goal", "missed-shot", "blocked-shot", "goal"} -> TRUE
    [] OTHER -> FALSE

IsGoal(p) == p = "goal"

IsPeriodBoundary(p) ==
  CASE p \in {"game-start", "period-start", "period-end", "game-end"} -> TRUE
    [] OTHER -> FALSE

PlayEventTypeFromString(s) ==
  IF ~PlayEventTypeIsValid(s) THEN [err |-> TRUE, val |-> ""] ELSE Ok(s)

PlayEventTypeUnmarshalJSON(p, data) ==
  LET s == JSONToString(data, "") IN
  IF s.err THEN [err |-> TRUE, val |-> p]
  ELSE LET r == PlayEventTypeFromString(s.val) IN
       IF r.err THEN [err |-> TRUE, val |-> p] ELSE Ok(r.val)

PlayEventTypeMarshalJSON(p) ==
  IF ~PlayEventTypeIsValid(p) THEN [err |-> TRUE, data |-> NullTok]
  ELSE [err |-> FALSE, data |-> StrTok(p)]

\* ---- GameState ----

GameStateIsValid(g) ==
  g = "FUT" \/ g = "PRE" \/ g = "LIVE" \/ g = "FINAL" \/ g = "OFF"
    \/ g = "PPD" \/ g = "SUSP" \/ g = "CRIT"

HasStarted(g) ==
  CASE g \in {"LIVE", "FINAL", "OFF", "CRIT"} -> TRUE
    [] OTHER -> FALSE

IsFinal(g) == g = "FINAL" \/ g = "OFF"

IsLive(g) == g = "LIVE" \/ g = "CRIT"

IsScheduled(g) == g = "FUT" \/ g = "PRE"

GameStateFromString(s) ==
  IF ~GameStateIsValid(s) THEN [err |-> TRUE, val |-> ""] ELSE Ok(s)

GameStateUnmarshalJSON(g, data) ==
  LET s == JSONToString(data, "") IN
  IF s.err THEN [err |-> TRUE, val |-> g]
  ELSE LET r == GameStateFromString(s.val) IN
       IF r.err THEN [err |-> TRUE, val |-> g] ELSE Ok(r.val)

GameStateMarshalJSON(g) ==
  IF ~GameStateIsValid(g) THEN [err |-> TRUE, data |-> NullTok]
  ELSE [err |-> FALSE, data |-> StrTok(g)]

\* ---- GameType (an int, not a string) ----

GameTypeIsValid(g) ==
  g = 1 \/ g = 2 \/ g = 3 \/ g = 4 \/ g = 9 \/ g = 10 \/ g = 12 \/ g = 19
    \/ g = 20

\* GameType.String(); the default branch formats the number, which no
\* parser accepts.
GameTypeString(g) ==
  CASE g = 1 -> "Preseason"
    [] g = 2 -> "Regular Season"
    [] g = 3 -> "Playoffs"
    [] g = 4 -> "All-Star"
    [] g = 9 -> "Olympics"
    [] g = 10 -> "YoungStars"
    [] g = 12 -> "PWHL Showcase"
    [] g = 19 -> "Women's All-Star"
    [] g = 20 -> "4 Nations Face-Off"
    [] OTHER -> "Unknown(%d)"

GameTypeFromInt(i) ==
  IF ~GameTypeIsValid(i) THEN [err |-> TRUE, val |-> 0] ELSE Ok(i)

GameTypeFromString(s) ==
  CASE s \in {"1", "Preseason"} -> Ok(1)
    [] s \in {"2", "Regular Season", "RegularSeason"} -> Ok(2)
    [] s \in {"3", "Playoffs"} -> Ok(3)
    [] s \in {"4", "All-Star", "AllStar"} -> Ok(4)
    [] s \in {"9", "Olympics"} -> Ok(9)
    [] s \in {"10", "YoungStars", "Young Stars"} -> Ok(10)
    [] s \in {"12", "PWHL Showcase", "PWHLShowcase"} -> Ok(12)
    [] s \in {"19", "Women's All-Star", "WomensAllStar"} -> Ok(19)
    [] s \in {"20", "4 Nations Face-Off", "4NationsFaceOff"} -> Ok(20)
    [] OTHER -> [err |-> TRUE, val |-> 0]

GameTypeUnmarshalJSON(g, data) ==
  LET i == JSONToInt(data, 0) IN
  IF ~i.err
  THEN LET r == GameTypeFromInt(i.val) IN
       IF r.err THEN [err |-> TRUE, val |-> g] ELSE Ok(r.val)
  ELSE LET s == JSONToString(data, "") IN
       IF s.err THEN [err |-> TRUE, val |-> g]
       ELSE LET r == GameTypeFromString(s.val) IN
            IF r.err THEN [err |-> TRUE, val |-> g] ELSE Ok(r.val)

GameTypeMarshalJSON(g) ==
  IF ~GameTypeIsValid(g) THEN [err |-> TRUE, data |-> NullTok]
  ELSE [err |-> FALSE, data |-> NumTok(g)]

\* ---- dispatch on the Go type of the value ----

EnumTypes ==
  {"Position", "Handedness", "GoalieDecision", "PeriodType", "HomeRoad",
   "ZoneCode", "DefendingSide", "GameScheduleState", "PlayEventType",
   "GameState", "GameType"}

EnumIsValid(t, v) ==
  CASE t = "Position" -> PositionIsValid(v)
    [] t = "Handedness" -> HandednessIsValid(v)
    [] t = "GoalieDecision" -> GoalieDecisionIsValid(v)
    [] t = "PeriodType" -> PeriodTypeIsValid(v)
    [] t = "HomeRoad" -> HomeRoadIsValid(v)
    [] t = "ZoneCode" -> ZoneCodeIsValid(v)
    [] t = "DefendingSide" -> DefendingSideIsValid(v)
    [] t = "GameScheduleState" -> GameScheduleStateIsValid(v)
    [] t = "PlayEventType" -> PlayEventTypeIsValid(v)
    [] t = "GameState" -> GameStateIsValid(v)
    [] t = "GameType" -> GameTypeIsValid(v)

EnumMarshalJSON(t, v) ==
  CASE t = "Position" -> PositionMarshalJSON(v)
    [] t = "Handedness" -> HandednessMarshalJSON(v)
    [] t = "GoalieDecision" -> GoalieDecisionMarshalJSON(v)
    [] t = "PeriodType" -> PeriodTypeMarshalJSON(v)
    [] t = "HomeRoad" -> HomeRoadMarshalJSON(v)
    [] t = "ZoneCode" -> ZoneCodeMarshalJSON(v)
    [] t = "DefendingSide" -> DefendingSideMarshalJSON(v)
    [] t = "GameScheduleState" -> GameScheduleStateMarshalJSON(v)
    [] t = "PlayEventType" -> PlayEventTypeMarshalJSON(v)
    [] t = "GameState" -> GameStateMarshalJSON(v)
    [] t = "GameType" -> GameTypeMarshalJSON(v)

EnumUnmarshalJSON(t, v, data) ==
  CASE t = "Position" -> PositionUnmarshalJSON(v, data)
    [] t = "Handedness" -> HandednessUnmarshalJSON(v, data)
    [] t = "GoalieDecision" -> GoalieDecisionUnmarshalJSON(v, data)
    [] t = "PeriodType" -> PeriodTypeUnmarshalJSON(v, data)
    [] t = "HomeRoad" -> HomeRoadUnmarshalJSON(v, data)
    [] t = "ZoneCode" -> ZoneCodeUnmarshalJSON(v, data)
    [] t = "DefendingSide" -> DefendingSideUnmarshalJSON(v, data)
    [] t = "GameScheduleState" -> GameScheduleStateUnmarshalJSON(v, data)
    [] t = "PlayEventType" -> PlayEventTypeUnmarshalJSON(v, data)
    [] t = "GameState" -> GameStateUnmarshalJSON(v, data)
    [] t = "GameType" -> GameTypeUnmarshalJSON(v, data)

EnumFromString(t, s) ==
  CASE t = "Position" -> PositionFromString(s)
    [] t = "Handedness" -> HandednessFromString(s)
    [] t = "GoalieDecision" -> GoalieDecisionFromString(s)
    [] t = "PeriodType" -> PeriodTypeFromString(s)
    [] t = "HomeRoad" -> HomeRoadFromString(s)
    [] t = "ZoneCode" -> ZoneCodeFromString(s)
    [] t = "DefendingSide" -> DefendingSideFromString(s)
    [] t = "GameScheduleState" -> GameScheduleStateFromString(s)
    [] t = "PlayEventType" -> PlayEventTypeFromString(s)
    [] t = "GameState" -> GameStateFromString(s)
    [] t = "GameType" -> GameTypeFromString(s)

\* The string a value is written as: string(v) for the string types (Code()
\* and String() of the coded types), String() for GameType.
EnumCode(t, v) == IF t = "GameType" THEN GameTypeString(v) ELSE v

\* The zero value of a freshly declared variable of the type.
EnumZero(t) == IF t = "GameType" THEN 0 ELSE ""

\* The classification predicates of each type.
EnumPredicates(t) ==
  CASE t = "Position" -> {"IsForward", "IsSkater"}
    [] t = "PeriodType" -> {"IsOvertime"}
    [] t = "GameState" -> {"HasStarted", "IsFinal", "IsLive", "IsScheduled"}
    [] t = "PlayEventType" -> {"IsScoringChance", "IsGoal", "IsPeriodBoundary"}
    [] OTHER -> {}

EnumPredicate(name, v) ==
  CASE name = "IsForward" -> IsForward(v)
    [] name = "IsSkater" -> IsSkater(v)
    [] name = "IsOvertime" -> IsOvertime(v)
    [] name = "HasStarted" -> HasStarted(v)
    [] name = "IsFinal" -> IsFinal(v)
    [] name = "IsLive" -> IsLive(v)
    [] name = "IsScheduled" -> IsScheduled(v)
    [] name = "IsScoringChance" -> IsScoringChance(v)
    [] name = "IsGoal" -> IsGoal(v)
    [] name = "IsPeriodBoundary" -> IsPeriodBoundary(v)

\* Strings outside every known set: the empty string, strings no parser
\* accepts, and a wrong-case spelling.
EnumInvalid == {"", "INVALID", "X", "center", "5"}

\* The spellings the FromString parser of each string type accepts.
EnumSpellings(t) ==
  CASE t = "Position" ->
         {"C", "Center", "L", "LW", "Left Wing", "LeftWing", "R", "RW",
          "Right Wing", "RightWing", "D", "Defense", "Defenseman", "G",
          "Goalie", "Goaltender"}
    [] t = "Handedness" -> {"L", "Left", "R", "Right"}
    [] t = "GoalieDecision" ->
         {"W", "Win", "L", "Loss", "T", "Tie", "O", "OTL", "Overtime Loss",
          "OvertimeLoss"}
    [] t = "PeriodType" ->
         {"REG", "Regulation", "OT", "Overtime", "SO", "Shootout"}
    [] t = "HomeRoad" -> {"H", "Home", "R", "Road", "Away"}
    [] t = "ZoneCode" ->
         {"O", "Offensive", "D", "Defensive", "N", "Neutral"}
    [] t = "DefendingSide" -> {"left", "right"}
    [] t = "GameScheduleState" -> EnumKnown("GameScheduleState")
    [] t = "PlayEventType" -> EnumKnown("PlayEventType")
    [] t = "GameState" -> EnumKnown("GameState")
    [] t = "GameType" ->
         {"1", "2", "3", "4", "9", "10", "12", "19", "20", "Preseason",
          "Regular Season", "RegularSeason", "Playoffs", "All-Star",
          "AllStar", "Olympics", "YoungStars", "Young Stars",
          "PWHL Showcase", "PWHLShowcase", "Women's All-Star",
          "WomensAllStar", "4 Nations Face-Off", "4NationsFaceOff"}

MaxGameTypeInt == 21

GameTypeInts == (-1 .. MaxGameTypeInt) \cup {99}

\* Values of type t a caller can hold in memory.
EnumValues(t) ==
  IF t = "GameType" THEN GameTypeInts ELSE EnumKnown(t) \cup EnumInvalid

\* Wire tokens a decoder of type t can be handed.
EnumTokens(t) ==
  {StrTok(s) : s \in EnumSpellings(t) \cup EnumInvalid}
    \cup {NumTok(n) : n \in {0, 1, 2, 5, 20, MaxGameTypeInt}}
    \cup {NullTok, BadTok}

\* val: the value a parser or decoder returned; true: the classification
\* predicates that returned true.
NoResult ==
  [op |-> "none", err |-> FALSE, data |-> NullTok, val |-> "", true |-> {}]

\* A Go conversion such as Position("INVALID") or GameType(5): any value of
\* the underlying type can be held in memory.
EnumConvert(t, v) ==
  /\ ev' = [type |-> t, val |-> v]
  /\ eres' = NoResult
  /\ UNCHANGED EnumFrame

\* json.Marshal of the value held in memory.
EnumMarshal ==
  /\ LET r == EnumMarshalJSON(ev.type, ev.val) IN
       eres' = [NoResult EXCEPT !.op = "Marshal", !.err = r.err,
                                !.data = r.data]
  /\ UNCHANGED ev
  /\ UNCHANGED EnumFrame

\* json.Unmarshal of a wire token into the variable holding the value.
EnumUnmarshal(data) ==
  /\ LET r == EnumUnmarshalJSON(ev.type, ev.val, data) IN
       /\ ev' = [ev EXCEPT !.val = r.val]
       /\ eres' = [NoResult EXCEPT !.op = "Unmarshal", !.err = r.err,
                                   !.data = data]
  /\ UNCHANGED EnumFrame

\* data, err := json.Marshal(v); var got T; err = json.Unmarshal(data, &got)
EnumRoundTrip ==
  /\ LET t == ev.type
         m == EnumMarshalJSON(t, ev.val)
         u == IF m.err THEN [err |-> TRUE, val |-> EnumZero(t)]
              ELSE EnumUnmarshalJSON(t, EnumZero(t), m.data)
     IN eres' = [NoResult EXCEPT !.op = "RoundTrip", !.err = u.err,
                                 !.data = m.data, !.val = u.val]
  /\ UNCHANGED ev
  /\ UNCHANGED EnumFrame

\* The FromString parser of the type applied to the value's own string.
EnumParseCode ==
  /\ LET r == EnumFromString(ev.type, EnumCode(ev.type, ev.val)) IN
       eres' = [NoResult EXCEPT !.op = "FromString", !.err = r.err,
                                !.val = r.val]
  /\ UNCHANGED ev
  /\ UNCHANGED EnumFrame

\* Every classification predicate of the type called on the value.
EnumClassify ==
  /\ EnumPredicates(ev.type) # {}
  /\ eres' = [NoResult EXCEPT
                !.op = "Classify",
                !.true = {n \in EnumPredicates(ev.type) :
                            EnumPredicate(n, ev.val)}]
  /\ UNCHANGED ev
  /\ UNCHANGED EnumFrame

EnumNext ==
  \/ \E t \in EnumTypes : \E v \in EnumValues(t) : EnumConvert(t, v)
  \/ EnumMarshal
  \/ \E data \in EnumTokens(ev.type) : EnumUnmarshal(data)
  \/ EnumRoundTrip
  \/ EnumParseCode
  \/ EnumClassify

(***************************************************************************)
(* Season.  The package source exists in two copies that differ in         *)
(* FromYears and ToInt: copy "A" validates end == start + 1 and converts   *)
(* through the API string, copy "B" also accepts end == start and converts *)
(* arithmetically through ID().  scopy is the copy the program is built    *)
(* from.                                                                   *)
(***************************************************************************)

SeasonCopies == {"A", "B"}

NewSeason(startYear) == [startYear |-> startYear]

StartYear(s) == s.startYear

EndYear(s) == s.startYear + 1

NoSeason == [err |-> TRUE, val |-> NewSeason(0)]

\* copy A
FromYears(startYear, endYear) ==
  LET expectedEnd == startYear + 1 IN
  IF endYear # expectedEnd THEN NoSeason ELSE Ok(NewSeason(startYear))

\* copy B
FromYears2(startYear, endYear) ==
  IF endYear = startYear \/ endYear = startYear + 1
  THEN Ok(NewSeason(startYear))
  ELSE NoSeason

FromYearsIn(c, startYear, endYear) ==
  IF c = "A" THEN FromYears(startYear, endYear)
  ELSE FromYears2(startYear, endYear)

\* fmt.Sprintf("%d%d", s.startYear, s.EndYear())
ToAPIString(s) == FormatInt(s.startYear) \o FormatInt(EndYear(s))

\* Parse also reports the two years it handed to FromYears (0, 0 when it
\* failed before that call).
ParseFail == [err |-> TRUE, val |-> NewSeason(0), start |-> 0, end |-> 0,
              called |-> FALSE]

ParseYears(c, startYear, endYear) ==
  LET r == FromYearsIn(c, startYear, endYear) IN
  [err |-> r.err, val |-> r.val, start |-> startYear, end |-> endYear,
   called |-> TRUE]

Parse(c, s) ==
  IF Contains(s, "-")
  THEN LET parts == Split(s, "-") IN
       IF Len(parts) # 2 THEN ParseFail
       ELSE LET startYear == Atoi(parts[1])
                endYear == Atoi(parts[2])
            IN IF startYear.err THEN ParseFail
               ELSE IF endYear.err THEN ParseFail
               ELSE ParseYears(c, startYear.val, endYear.val)
  ELSE IF Len(s) = 8
  THEN LET startYear == Atoi(SubSeq(s, 1, 4))
           endYear == Atoi(SubSeq(s, 5, 8))
       IN IF startYear.err THEN ParseFail
          ELSE IF endYear.err THEN ParseFail
          ELSE ParseYears(c, startYear.val, endYear.val)
  ELSE ParseFail

\* Decoding that takes the years in the opposite order.
SeasonFromIntSwapped(c, i) ==
  IF i < 10000000 \/ i > 99999999 THEN NoSeason
  ELSE LET startYear == i % 10000
           endYear == i \div 10000
       IN FromYearsIn(c, startYear, endYear)

SeasonFromInt(c, i) ==
  IF i < 10000000 \/ i > 99999999 THEN NoSeason
  ELSE LET startYear == i \div 10000
           endYear == i % 10000
       IN FromYearsIn(c, startYear, endYear)

SeasonFromInt64(c, i) ==
  IF i < 10000000 \/ i > 99999999 THEN NoSeason ELSE SeasonFromInt(c, i)

\* An ID that repeats the start year instead of the end year.
IDSameYear(s) == (s.startYear * 10000) + s.startYear

\* copy B
ID(s) == (s.startYear * 10000) + s.startYear + 1

\* copy A: i, _ := strconv.Atoi(s.ToAPIString()); copy B: s.ID()
ToInt(c, s) == IF c = "A" THEN Atoi(ToAPIString(s)).val ELSE ID(s)

SeasonUnmarshalJSON(c, cur, data) ==
  LET i == JSONToInt(data, 0) IN
  IF ~i.err
  THEN LET r == SeasonFromInt64(c, i.val) IN
       IF r.err THEN [err |-> TRUE, val |-> cur] ELSE Ok(r.val)
  ELSE LET str == JSONToString(data, <<>>) IN
       IF str.err THEN [err |-> TRUE, val |-> cur]
       ELSE LET r == Parse(c, str.val) IN
            IF r.err THEN [err |-> TRUE, val |-> cur] ELSE Ok(r.val)

\* ---- inputs ----

MinSeasonYear == 999

MaxSeasonYear == 10000

SeasonYears ==
  {-1, 0, MinSeasonYear, MinSeasonYear + 1, 2023, MaxSeasonYear - 2,
   MaxSeasonYear - 1, MaxSeasonYear}

SeasonInts ==
  {-20232024, 0, 2023, 9991000, 9999999, 10000000, 10001001, 20232023,
   20232024, 20232025, 99989999, 99999999, 100000000, 202320241, 999910000}

SeasonSegs ==
  {<<>>, <<"2">>, <<"9", "9", "9">>, <<"0", "9", "9", "9">>,
   <<"+", "9", "9", "9">>, <<"1", "0", "0", "0">>, <<"2", "0", "2", "3">>,
   <<"2", "0", "2", "4">>, <<"A", "B", "C", "D">>}

SeasonStrings ==
  SeasonSegs
    \cup {a \o <<"-">> \o b : a, b \in SeasonSegs}
    \cup {a \o b : a, b \in SeasonSegs}
    \cup {a \o <<"-">> \o b \o <<"-">> \o b : a, b \in {<<"2", "0", "2", "3">>,
                                                      <<"2", "0", "2", "4">>}}

SeasonTokens ==
  {StrTok(s) : s \in SeasonStrings} \cup {NumTok(i) : i \in SeasonInts}
    \cup {NullTok, BadTok}

\* ---- state and actions ----

SNoResult ==
  [op |-> "none", err |-> FALSE, val |-> NewSeason(0), start |-> 0,
   end |-> 0, out |-> 0, src |-> NewSeason(0), fed |-> FALSE]

SeasonIdle ==
  /\ scopy = "A"
  /\ season = NewSeason(2023)
  /\ sres = SNoResult

\* Every constructor and decoder is a pure function of its arguments (and,
\* for UnmarshalJSON, of the variable it decodes into), so each behaviour
\* makes one such call on the Season drawn by SeasonInit and then encodes
\* and re-decodes the result.
DoNewSeason(y) ==
  /\ sres.op = "none"
  /\ season' = NewSeason(y)
  /\ sres' = [SNoResult EXCEPT !.op = "NewSeason", !.val = NewSeason(y)]
  /\ UNCHANGED scopy
  /\ UNCHANGED SeasonFrame

DoFromYears(a, b) ==
  /\ sres.op = "none"
  /\ LET r == FromYearsIn(scopy, a, b) IN
       /\ season' = IF r.err THEN season ELSE r.val
       /\ sres' = [SNoResult EXCEPT !.op = "FromYears", !.err = r.err,
                                    !.val = r.val, !.start = a, !.end = b]
  /\ UNCHANGED scopy
  /\ UNCHANGED SeasonFrame

DoParse(s) ==
  /\ sres.op = "none"
  /\ LET r == Parse(scopy, s) IN
       /\ season' = IF r.err THEN season ELSE r.val
       /\ sres' = [SNoResult EXCEPT !.op = "Parse", !.err = r.err,
                                    !.val = r.val, !.start = r.start,
                                    !.end = r.end, !.out = s]
  /\ UNCHANGED scopy
  /\ UNCHANGED SeasonFrame

DoSeasonFromInt(i) ==
  /\ sres.op = "none"
  /\ LET r == SeasonFromInt(scopy, i) IN
       /\ season' = IF r.err THEN season ELSE r.val
       /\ sres' = [SNoResult EXCEPT !.op = "SeasonFromInt", !.err = r.err,
                                    !.val = r.val, !.start = i \div 10000,
                                    !.end = i % 10000, !.out = i]
  /\ UNCHANGED scopy
  /\ UNCHANGED SeasonFrame

\* json.Unmarshal(data, &season): *s is assigned only on success.
DoSeasonUnmarshal(data) ==
  /\ sres.op = "none"
  /\ LET r == SeasonUnmarshalJSON(scopy, season, data)
         p == IF data.k = "str" THEN Parse(scopy, data.s) ELSE ParseFail
     IN
       /\ season' = r.val
       /\ sres' = [SNoResult EXCEPT
                     !.op = "UnmarshalJSON", !.err = r.err, !.val = r.val,
                     !.start = IF data.k = "num" THEN data.n \div 10000
                               ELSE p.start,
                     !.end = IF data.k = "num" THEN data.n % 10000
                             ELSE p.end,
                     !.out = data]
  /\ UNCHANGED scopy
  /\ UNCHANGED SeasonFrame

DoToInt ==
  /\ sres' = [SNoResult EXCEPT !.op = "ToInt", !.out = ToInt(scopy, season),
                               !.src = season]
  /\ UNCHANGED <<scopy, season>>
  /\ UNCHANGED SeasonFrame

DoToAPIString ==
  /\ sres' = [SNoResult EXCEPT !.op = "ToAPIString",
                               !.out = ToAPIString(season), !.src = season]
  /\ UNCHANGED <<scopy, season>>
  /\ UNCHANGED SeasonFrame

\* The season integer computed both ways: start holds the string-based
\* ToInt of copy A, end the arithmetic ID() of copy B.
DoToIntAndID ==
  /\ sres' = [SNoResult EXCEPT !.op = "ToIntAndID",
                               !.start = ToInt("A", season),
                               !.end = ID(season), !.src = season]
  /\ UNCHANGED <<scopy, season>>
  /\ UNCHANGED SeasonFrame

\* SeasonFromInt(s.ToInt()): the integer just produced is decoded again.
DoSeasonFromIntOfToInt ==
  /\ sres.op = "ToInt"
  /\ LET r == SeasonFromInt(scopy, sres.out) IN
       /\ season' = IF r.err THEN season ELSE r.val
       /\ sres' = [SNoResult EXCEPT !.op = "SeasonFromInt", !.err = r.err,
                                    !.val = r.val,
                                    !.start = sres.out \div 10000,
                                    !.end = sres.out % 10000,
                                    !.out = sres.out, !.src = sres.src,
                                    !.fed = TRUE]
  /\ UNCHANGED scopy
  /\ UNCHANGED SeasonFrame

\* Parse(s.ToAPIString()): the string just produced is parsed again.
DoParseOfToAPIString ==
  /\ sres.op = "ToAPIString"
  /\ LET r == Parse(scopy, sres.out) IN
       /\ season' = IF r.err THEN season ELSE r.val
       /\ sres' = [SNoResult EXCEPT !.op = "Parse", !.err = r.err,
                                    !.val = r.val, !.start = r.start,
                                    !.end = r.end, !.out = sres.out,
                                    !.src = sres.src, !.fed = TRUE]
  /\ UNCHANGED scopy
  /\ UNCHANGED SeasonFrame

SeasonNext ==
  \/ \E y \in SeasonYears : DoNewSeason(y)
  \/ \E a \in SeasonYears : \E b \in {a - 1, a, a + 1, a + 2} :
       DoFromYears(a, b)
  \/ \E s \in SeasonStrings : DoParse(s)
  \/ \E i \in SeasonInts : DoSeasonFromInt(i)
  \/ \E data \in SeasonTokens : DoSeasonUnmarshal(data)
  \/ DoToInt
  \/ DoToAPIString
  \/ DoToIntAndID
  \/ DoSeasonFromIntOfToInt
  \/ DoParseOfToAPIString

(***************************************************************************)
(* GameID (src/nhl/game_id.go)                                             *)
(*                                                                         *)
(* A GameID is an int64.  Ten-digit values do not fit the integers of the  *)
(* model checker, so an int64 is kept as sign and magnitude, the magnitude *)
(* in two limbs: hi * 10000 + lo with 0 <= lo < 10000.  Zero has           *)
(* neg = FALSE.                                                            *)
(***************************************************************************)

Limb == 10000

I64(neg, hi, lo) == [neg |-> neg /\ (hi # 0 \/ lo # 0), hi |-> hi, lo |-> lo]

I64Zero == I64(FALSE, 0, 0)

MagLess(a, b) == a.hi < b.hi \/ (a.hi = b.hi /\ a.lo < b.lo)

\* a < b
I64Less(a, b) ==
  IF a.neg # b.neg THEN a.neg
  ELSE IF a.neg THEN MagLess(b, a)
  ELSE MagLess(a, b)

\* 1000000000 and 9999999999
MinTenDigits == I64(FALSE, 100000, 0)

MaxTenDigits == I64(FALSE, 999999, 9999)

\* The int64 that a sign and a string of decimal digits denote.
I64OfDigits(neg, body) ==
  LET sig == StripZeros(body)
      n == Len(sig)
      hi == IF n > 4 THEN DigitsValue(SubSeq(sig, 1, n - 4)) ELSE 0
      lo == IF n > 4 THEN DigitsValue(SubSeq(sig, n - 3, n))
            ELSE DigitsValue(sig)
  IN I64(neg, hi, lo)

\* strconv.ParseInt(s, 10, 64); the callers drop the value on an error.
ParseInt(s) ==
  LET sh == AtoiShape(s) IN
  IF sh.kind # "" THEN [err |-> TRUE, val |-> I64Zero]
  ELSE Ok(I64OfDigits(sh.neg, sh.body))

\* fmt "%04d" of a limb
Pad4(n) ==
  LET d == FormatNat(n) IN
  SubSeq(<<"0", "0", "0">>, 1, 4 - Len(d)) \o d

\* strconv.FormatInt(int64(g), 10)
GameIDString(g) ==
  (IF g.neg THEN <<"-">> ELSE <<>>)
    \o (IF g.hi = 0 THEN FormatNat(g.lo) ELSE FormatNat(g.hi) \o Pad4(g.lo))

NewGameID(id) == id

\* val is *g after the call.
GameIDUnmarshalJSON(cur, data) ==
  LET i == JSONToInt(data, I64Zero) IN
  IF ~i.err THEN Ok(i.val)
  ELSE LET s == JSONToString(data, <<>>) IN
       IF s.err THEN [err |-> TRUE, val |-> cur]
       ELSE LET p == ParseInt(s.val) IN
            IF p.err THEN [err |-> TRUE, val |-> cur] ELSE Ok(p.val)

GameIDSeason(g) ==
  LET id == g IN
  IF I64Less(id, MinTenDigits) \/ I64Less(MaxTenDigits, id)
  THEN [err |-> TRUE, val |-> NewSeason(0)]
  ELSE LET startYear == id.hi \div 100 IN Ok(NewSeason(startYear))

\* Extraction that also rejects an unknown game type.
GameTypeChecked(g) ==
  LET id == g IN
  IF I64Less(id, MinTenDigits) \/ I64Less(MaxTenDigits, id)
  THEN [err |-> TRUE, val |-> 0]
  ELSE LET gameType == id.hi % 100 IN
       IF GameTypeIsValid(gameType) THEN Ok(gameType)
       ELSE [err |-> TRUE, val |-> 0]

GameIDGameType(g) ==
  LET id == g IN
  IF I64Less(id, MinTenDigits) \/ I64Less(MaxTenDigits, id)
  THEN [err |-> TRUE, val |-> 0]
  ELSE LET gameType == id.hi % 100 IN Ok(gameType)

\* Extraction that keeps three digits only.
GameNumberShort(g) ==
  LET id == g IN
  IF I64Less(id, MinTenDigits) \/ I64Less(MaxTenDigits, id)
  THEN [err |-> TRUE, val |-> 0]
  ELSE LET gameNumber == id.lo % 1000 IN Ok(gameNumber)

GameIDGameNumber(g) ==
  LET id == g IN
  IF I64Less(id, MinTenDigits) \/ I64Less(MaxTenDigits, id)
  THEN [err |-> TRUE, val |-> 0]
  ELSE LET gameNumber == id.lo % Limb IN Ok(gameNumber)

\* Validation of the range only.
ValidateRangeOnly(g) ==
  LET id == g IN
  I64Less(id, MinTenDigits) \/ I64Less(MaxTenDigits, id)

\* TRUE when Validate returns an error.
Validate(g) ==
  LET id == g IN
  IF I64Less(id, MinTenDigits) \/ I64Less(MaxTenDigits, id) THEN TRUE
  ELSE LET gameTypeInt == GameIDGameType(g) IN
       IF gameTypeInt.err THEN TRUE
       ELSE IF ~GameTypeIsValid(gameTypeInt.val) THEN TRUE
       ELSE FALSE

\* Parsing that also accepts an empty string as 0.
GameIDFromStringLax(s) ==
  IF s = <<>> THEN Ok(I64Zero) ELSE ParseInt(s)

GameIDFromString(s) ==
  LET r == ParseInt(s) IN
  IF r.err THEN [err |-> TRUE, val |-> I64Zero] ELSE Ok(r.val)

\* ---- inputs ----

\* Ten-digit ids SSSSGTNNNN.
TenDigitIDs ==
  {I64(FALSE, (y * 100) + t, n) :
     y \in {1000, 2023, 9999}, t \in (0 .. MaxGameTypeInt) \cup {99},
     n \in {0, 1, 9999}}

OtherIDs ==
  {I64Zero, I64(TRUE, 0, 1), I64(FALSE, 0, 123), I64(FALSE, 99999, 9999),
   I64(FALSE, 1000000, 0), I64(FALSE, 2023020, 11),
   I64(TRUE, 202302, 1), I64(TRUE, 12345, 6789)}

GameIDStringIDs ==
  {I64(FALSE, 202302, 1), I64(FALSE, 202305, 1), I64(FALSE, 100001, 0),
   I64(FALSE, 999904, 9999), I64(FALSE, 202300, 0)} \cup OtherIDs

GameIDStrings ==
  {GameIDString(g) : g \in GameIDStringIDs}
    \cup {<<"+">> \o GameIDString(g) : g \in {I64(FALSE, 202302, 1)}}
    \cup {<<"0">> \o GameIDString(g) :
            g \in {I64(FALSE, 202302, 1), I64(FALSE, 0, 123)}}
    \cup {GameIDString(I64(FALSE, 202302, 1)) \o <<".", "5">>,
          GameIDString(I64(FALSE, 202302, 1)) \o <<" ">>,
          <<"0", "0", "0", "0", "0", "0", "0", "1", "2", "3">>,
          <<"2", "0", "2", "3", "-", "0", "2", "-", "1">>,
          <<"i", "n", "v", "a", "l", "i", "d">>,
          <<"a", "b", "c", "d", "e", "f", "g", "h", "i", "j">>,
          <<>>, <<"-">>,
          MaxInt64Digits \o <<"0">>}

GameIDTokens ==
  {StrTok(s) : s \in GameIDStrings}
    \cup {NumTok(g) : g \in GameIDStringIDs}
    \cup {NullTok, BadTok}

\* ---- state and actions ----

GameIDCalls == {"Season", "GameType", "GameNumber", "Validate"}

GNoResult ==
  [op |-> "none", err |-> FALSE, in |-> NullTok, val |-> I64Zero,
   old |-> I64Zero, called |-> {}, sErr |-> FALSE, sVal |-> NewSeason(0),
   tErr |-> FALSE,
   tVal |-> 0, nErr |-> FALSE, nVal |-> 0, vErr |-> FALSE,
   wCopy |-> "", wStr |-> <<>>, wErr |-> FALSE, wVal |-> NewSeason(0)]

GameIDIdle ==
  /\ gid = I64Zero
  /\ gres = GNoResult

\* A GameID is an immutable value: each behaviour obtains one (or fails to)
\* and then calls its methods.
DoNewGameID(id) ==
  /\ gres.op = "none" /\ gres.called = {}
  /\ gid' = NewGameID(id)
  /\ gres' = [GNoResult EXCEPT !.op = "NewGameID", !.val = id, !.old = gid,
                               !.in = NumTok(id)]
  /\ UNCHANGED GameIDFrame

\* id, err := GameIDFromString(s); the caller keeps id when err == nil.
DoGameIDFromString(s) ==
  /\ gres.op = "none" /\ gres.called = {}
  /\ LET r == GameIDFromString(s) IN
       /\ gid' = IF r.err THEN gid ELSE r.val
       /\ gres' = [GNoResult EXCEPT !.op = "GameIDFromString",
                                    !.err = r.err, !.val = r.val,
                                    !.old = gid, !.in = StrTok(s)]
  /\ UNCHANGED GameIDFrame

DoGameIDUnmarshal(data) ==
  /\ gres.op = "none" /\ gres.called = {}
  /\ LET r == GameIDUnmarshalJSON(gid, data) IN
       /\ gid' = r.val
       /\ gres' = [GNoResult EXCEPT !.op = "UnmarshalJSON", !.err = r.err,
                                    !.val = r.val, !.old = gid, !.in = data]
  /\ UNCHANGED GameIDFrame

DoGameIDSeason ==
  /\ "Season" \notin gres.called
  /\ LET r == GameIDSeason(gid) IN
       gres' = [gres EXCEPT !.called = @ \cup {"Season"}, !.sErr = r.err,
                            !.sVal = r.val]
  /\ UNCHANGED gid
  /\ UNCHANGED GameIDFrame

DoGameIDGameType ==
  /\ "GameType" \notin gres.called
  /\ LET r == GameIDGameType(gid) IN
       gres' = [gres EXCEPT !.called = @ \cup {"GameType"}, !.tErr = r.err,
                            !.tVal = r.val]
  /\ UNCHANGED gid
  /\ UNCHANGED GameIDFrame

DoGameIDGameNumber ==
  /\ "GameNumber" \notin gres.called
  /\ LET r == GameIDGameNumber(gid) IN
       gres' = [gres EXCEPT !.called = @ \cup {"GameNumber"},
                            !.nErr = r.err, !.nVal = r.val]
  /\ UNCHANGED gid
  /\ UNCHANGED GameIDFrame

DoValidate ==
  /\ "Validate" \notin gres.called
  /\ gres' = [gres EXCEPT !.called = @ \cup {"Validate"},
                          !.vErr = Validate(gid)]
  /\ UNCHANGED gid
  /\ UNCHANGED GameIDFrame

\* season, _ := g.Season(); then season.ToAPIString() and
\* SeasonFromInt(season.ToInt()), with copy c of the Season code.
DoSeasonWire(c) ==
  /\ "Season" \in gres.called /\ ~gres.sErr
  /\ "Wire" \notin gres.called
  /\ LET r == SeasonFromInt(c, ToInt(c, gres.sVal)) IN
       gres' = [gres EXCEPT !.called = @ \cup {"Wire"}, !.wCopy = c,
                            !.wStr = ToAPIString(gres.sVal),
                            !.wErr = r.err, !.wVal = r.val]
  /\ UNCHANGED gid
  /\ UNCHANGED GameIDFrame

GameIDNext ==
  \/ \E id \in TenDigitIDs \cup OtherIDs : DoNewGameID(id)
  \/ \E s \in GameIDStrings : DoGameIDFromString(s)
  \/ \E data \in GameIDTokens : DoGameIDUnmarshal(data)
  \/ DoGameIDSeason
  \/ DoGameIDGameType
  \/ DoGameIDGameNumber
  \/ DoValidate
  \/ \E c \in SeasonCopies : DoSeasonWire(c)

(***************************************************************************)
(* GameDate (src/unnamed/part_006, lines 11-121)                           *)
(*                                                                         *)
(* A time.Time in UTC is a number of ticks since 1970-01-01 00:00, a day    *)
(* being TicksPerDay ticks; clock is the wall clock time.Now() reads.      *)
(***************************************************************************)

TicksPerDay == 2

\* Days since 1970-01-01 of the proleptic Gregorian date year-month-day,
\* 1 <= month <= 12, day >= 1 in the month.
DaysFromCivil(year, month, day) ==
  LET y == IF month <= 2 THEN year - 1 ELSE year
      era == y \div 400
      yoe == y - (era * 400)
      mp == IF month > 2 THEN month - 3 ELSE month + 9
      doy == (((153 * mp) + 2) \div 5) + day - 1
      doe == (yoe * 365) + (yoe \div 4) - (yoe \div 100) + doy
  IN (era * 146097) + doe - 719468

\* Year, Month and Day of a time.Time.
CivilFromDays(days) ==
  LET z == days + 719468
      era == z \div 146097
      doe == z - (era * 146097)
      yoe == (doe - (doe \div 1460) + (doe \div 36524) - (doe \div 146096))
               \div 365
      doy == doe - ((365 * yoe) + (yoe \div 4) - (yoe \div 100))
      mp == ((5 * doy) + 2) \div 153
      d == doy - (((153 * mp) + 2) \div 5) + 1
      m == IF mp < 10 THEN mp + 3 ELSE mp - 9
      y == yoe + (era * 400) + (IF m <= 2 THEN 1 ELSE 0)
  IN [year |-> y, month |-> m, day |-> d]

\* time.Date(year, month, day, 0, 0, 0, 0, time.UTC): a month outside 1..12
\* carries into the year, a day outside the month carries into the months.
TimeDate(year, month, day) ==
  LET m == month - 1
      y == year + (m \div 12)
      mm == (m % 12) + 1
  IN (DaysFromCivil(y, mm, 1) + day - 1) * TicksPerDay

\* The zero time.Time, 0001-01-01.
ZeroTime == TimeDate(1, 1, 1)

\* t.AddDate(years, months, days): the civil date is moved and normalised
\* as in time.Date, the time of day is kept.
AddDate(t, years, months, days) ==
  LET d == CivilFromDays(t \div TicksPerDay) IN
  TimeDate(d.year + years, d.month + months, d.day + days)
    + (t % TicksPerDay)

FromDate(t) == [isNow |-> FALSE, date |-> t]

Now == [isNow |-> TRUE, date |-> ZeroTime]

FromYMD(year, month, day) ==
  [isNow |-> FALSE, date |-> TimeDate(year, month, day)]

IsNow(g) == g.isNow

\* A Date that returns the stored time also for a symbolic GameDate.
DateStored(g, now) == g.date

\* now is what time.Now().UTC() returns during the call.
Date(g, now) == IF g.isNow THEN now ELSE g.date

RECURSIVE Zeros(_)
Zeros(n) == IF n <= 0 THEN <<>> ELSE <<"0">> \o Zeros(n - 1)

\* fmt.Sprintf("%0<w>d", n)
FormatPadded(n, w) ==
  IF n < 0
  THEN LET d == FormatNat(0 - n) IN <<"-">> \o Zeros(w - 1 - Len(d)) \o d
  ELSE LET d == FormatNat(n) IN Zeros(w - Len(d)) \o d

\* fmt.Sprintf("%04d-%02d-%02d", d.Year(), d.Month(), d.Day())
GameDateToAPIString(g, now) ==
  LET d == CivilFromDays(Date(g, now) \div TicksPerDay) IN
  FormatPadded(d.year, 4) \o <<"-">> \o FormatPadded(d.month, 2) \o <<"-">>
    \o FormatPadded(d.day, 2)

\* An AddDays that leaves a symbolic GameDate symbolic.
AddDaysKeepNow(g, now, days) ==
  IF g.isNow THEN g ELSE FromDate(AddDate(g.date, 0, 0, days))

\* now is what time.Now().UTC() returns during the call.
AddDays(g, now, days) ==
  LET d == Date(g, now)
      newDate == AddDate(d, 0, 0, days)
  IN FromDate(newDate)

NowString == <<"n", "o", "w">>

GameDateString(g, now) ==
  IF g.isNow THEN NowString ELSE GameDateToAPIString(g, now)

GameDateMarshalJSON(g, now) ==
  IF g.isNow THEN [err |-> FALSE, data |-> StrTok(NowString)]
  ELSE [err |-> FALSE, data |-> StrTok(GameDateToAPIString(g, now))]

\* Decoding that ignores segments after the third.
GameDateUnmarshalLoose(cur, data) ==
  LET s == JSONToString(data, <<>>) IN
  IF s.err THEN [err |-> TRUE, val |-> cur]
  ELSE IF s.val = NowString THEN Ok(Now)
  ELSE LET parts == Split(s.val, "-") IN
       IF Len(parts) < 3 THEN [err |-> TRUE, val |-> cur]
       ELSE LET year == Atoi(parts[1])
                month == Atoi(parts[2])
                day == Atoi(parts[3])
            IN IF year.err THEN [err |-> TRUE, val |-> cur]
               ELSE IF month.err THEN [err |-> TRUE, val |-> cur]
               ELSE IF day.err THEN [err |-> TRUE, val |-> cur]
               ELSE Ok(FromYMD(year.val, month.val, day.val))

\* val is *gd after the call.
GameDateUnmarshalJSON(cur, data) ==
  LET s == JSONToString(data, <<>>) IN
  IF s.err THEN [err |-> TRUE, val |-> cur]
  ELSE IF s.val = NowString THEN Ok(Now)
  ELSE LET parts == Split(s.val, "-") IN
       IF Len(parts) # 3 THEN [err |-> TRUE, val |-> cur]
       ELSE LET year == Atoi(parts[1])
                month == Atoi(parts[2])
                day == Atoi(parts[3])
            IN IF year.err THEN [err |-> TRUE, val |-> cur]
               ELSE IF month.err THEN [err |-> TRUE, val |-> cur]
               ELSE IF day.err THEN [err |-> TRUE, val |-> cur]
               ELSE Ok(FromYMD(year.val, month.val, day.val))

\* ---- inputs ----

YearSegs ==
  {<<"2", "0", "2", "4">>, <<"1">>, <<"+", "2", "0", "2", "4">>,
   <<"a", "b", "c", "d">>, <<>>, MaxInt64Digits \o <<"0">>}

MonthSegs ==
  {<<"0", "1">>, <<"2">>, <<"1", "3">>, <<"0">>, <<"x", "x">>, <<>>}

DaySegs ==
  {<<"1", "5">>, <<"5">>, <<"4", "5">>, <<"0", "0">>, <<"3", "a">>,
   <<"+", "5">>}

GameDateStrings ==
  {y \o <<"-">> \o m \o <<"-">> \o d :
     y \in YearSegs, m \in MonthSegs, d \in DaySegs}
    \cup {y \o <<"-">> \o m : y \in YearSegs, m \in MonthSegs}
    \cup {y \o m \o d :
            y \in {<<"2", "0", "2", "4">>}, m \in MonthSegs, d \in DaySegs}
    \cup {<<"2", "0", "2", "4", "-", "0", "1", "-", "1", "5">> \o t :
            t \in {<<"-", "0", "3">>, <<"-">>, <<" ">>, <<"T", "0">>}}
    \cup {NowString, <<"N", "o", "w">>, NowString \o <<" ">>,
          <<"n", "o", "w", "-", "1", "-", "1">>, <<"t", "o", "d", "a", "y">>}

GameDateTokens ==
  {StrTok(s) : s \in GameDateStrings}
    \cup {NumTok(i) : i \in {0, 20240115}} \cup {NullTok, BadTok}

GameDateYMDs ==
  {<<2024, 1, 15>>, <<2024, 2, 29>>, <<2023, 2, 29>>, <<2023, 13, 45>>,
   <<2023, 12, 31>>, <<999, 1, 1>>, <<1, 1, 1>>, <<2024, 0, 0>>,
   <<0, 1, 1>>, <<10000, 1, 1>>}

\* The instants at which a behaviour starts its clock: the last tick of
\* 2024-02-28 and of 2025-12-31.
ClockDays == {TimeDate(2024, 2, 29) - 1, TimeDate(2026, 1, 1) - 1}

MaxClockTicks == 2

MaxAddDays == 2

AddDaysArgs == {-366, -1, 0, 1}

\* ---- state and actions ----

\* in, old: the argument and the GameDate before the last constructor or
\* decoder; at, n, adds: clock and argument of the last AddDays and the
\* number of AddDays calls; obs: what Date() and ToAPIString() returned on
\* the current GameDate, with the clock of each call.
DNoResult ==
  [op |-> "none", err |-> FALSE, in |-> NullTok, old |-> Now,
   out |-> <<>>, at |-> 0, n |-> 0, adds |-> 0, obs |-> {}]

GameDateIdle ==
  /\ gd = Now
  /\ dres = DNoResult
  /\ clock = 0

\* The wall clock advances.
Tick ==
  /\ \E c \in ClockDays : c <= clock /\ clock < c + MaxClockTicks
  /\ clock' = clock + 1
  /\ UNCHANGED <<gd, dres>>
  /\ UNCHANGED GameDateFrame

DoNow ==
  /\ dres.op = "none"
  /\ gd' = Now
  /\ dres' = [DNoResult EXCEPT !.op = "Now", !.old = gd]
  /\ UNCHANGED clock
  /\ UNCHANGED GameDateFrame

DoFromYMD(year, month, day) ==
  /\ dres.op = "none"
  /\ gd' = FromYMD(year, month, day)
  /\ dres' = [DNoResult EXCEPT !.op = "FromYMD", !.old = gd]
  /\ UNCHANGED clock
  /\ UNCHANGED GameDateFrame

DoGameDateUnmarshal(data) ==
  /\ dres.op = "none"
  /\ LET r == GameDateUnmarshalJSON(gd, data) IN
       /\ gd' = r.val
       /\ dres' = [DNoResult EXCEPT !.op = "UnmarshalJSON", !.err = r.err,
                                    !.in = data, !.old = gd]
  /\ UNCHANGED clock
  /\ UNCHANGED GameDateFrame

\* gd = gd.AddDays(days)
DoAddDays(days) ==
  /\ dres.op \in {"none", "Now", "FromYMD", "AddDays"}
  /\ dres.adds < MaxAddDays
  /\ gd' = AddDays(gd, clock, days)
  /\ dres' = [DNoResult EXCEPT !.op = "AddDays", !.old = gd, !.at = clock,
                               !.n = days, !.adds = dres.adds + 1]
  /\ UNCHANGED clock
  /\ UNCHANGED GameDateFrame

\* gd.Date() and gd.ToAPIString(), both called at the current clock.
DoDate ==
  /\ dres.op \in {"none", "Now", "FromYMD", "AddDays"}
  /\ dres' = [dres EXCEPT
                !.obs = @ \cup {[at |-> clock, t |-> Date(gd, clock),
                                 s |-> GameDateToAPIString(gd, clock)]}]
  /\ UNCHANGED <<gd, clock>>
  /\ UNCHANGED GameDateFrame

DoGameDateToAPIString ==
  /\ dres.op \notin {"ToAPIString", "String", "MarshalJSON"}
  /\ dres.obs = {}
  /\ dres' = [dres EXCEPT !.op = "ToAPIString",
                          !.out = GameDateToAPIString(gd, clock)]
  /\ UNCHANGED <<gd, clock>>
  /\ UNCHANGED GameDateFrame

DoGameDateString ==
  /\ dres.op \notin {"ToAPIString", "String", "MarshalJSON"}
  /\ dres.obs = {}
  /\ dres' = [dres EXCEPT !.op = "String",
                          !.out = GameDateString(gd, clock)]
  /\ UNCHANGED <<gd, clock>>
  /\ UNCHANGED GameDateFrame

DoGameDateMarshal ==
  /\ dres.op \notin {"ToAPIString", "String", "MarshalJSON"}
  /\ dres.obs = {}
  /\ dres' = [dres EXCEPT !.op = "MarshalJSON",
                          !.out = GameDateMarshalJSON(gd, clock).data.s]
  /\ UNCHANGED <<gd, clock>>
  /\ UNCHANGED GameDateFrame

GameDateNext ==
  \/ Tick
  \/ DoNow
  \/ \E ymd \in GameDateYMDs : DoFromYMD(ymd[1], ymd[2], ymd[3])
  \/ \E data \in GameDateTokens : DoGameDateUnmarshal(data)
  \/ \E days \in AddDaysArgs : DoAddDays(days)
  \/ DoDate
  \/ DoGameDateToAPIString
  \/ DoGameDateString
  \/ DoGameDateMarshal

(***************************************************************************)
(* GameSituation (src/nhl/game_center.go)                                  *)
(*                                                                         *)
(* A situation code is a Go string indexed by byte: a sequence of          *)
(* one-character strings, each standing for one byte.  sit is the          *)
(* *GameSituation a call returned; sit.nil is the nil pointer.             *)
(***************************************************************************)

NilSituation ==
  [nil |-> TRUE, AwaySkaters |-> 0, AwayGoalieIn |-> FALSE,
   HomeSkaters |-> 0, HomeGoalieIn |-> FALSE]

GameSituation(awaySkaters, awayGoalieIn, homeSkaters, homeGoalieIn) ==
  [nil |-> FALSE, AwaySkaters |-> awaySkaters, AwayGoalieIn |-> awayGoalieIn,
   HomeSkaters |-> homeSkaters, HomeGoalieIn |-> homeGoalieIn]

\* A parser that wants a decimal digit at all four positions.
GameSituationFromDigits(code) ==
  IF Len(code) # 4 \/ ~AllDigits(code) THEN NilSituation
  ELSE GameSituation(DigitVal(code[2]), code[1] = "1",
                     DigitVal(code[3]), code[4] = "1")

\* code[i] of the source is code[i + 1] here.
GameSituationFromCode(code) ==
  IF Len(code) # 4 THEN NilSituation
  ELSE LET awayGoalieDigit == code[1]
           awaySkaterDigit == code[2]
           homeSkaterDigit == code[3]
           homeGoalieDigit == code[4]
           awaySkaters == Atoi(<<awaySkaterDigit>>)
           homeSkaters == Atoi(<<homeSkaterDigit>>)
       IN IF awaySkaters.err THEN NilSituation
          ELSE IF homeSkaters.err THEN NilSituation
          ELSE GameSituation(awaySkaters.val, awayGoalieDigit = "1",
                             homeSkaters.val, homeGoalieDigit = "1")

\* A description that looks at the skater counts before the goalies.
StrengthDescriptionPPFirst(g) ==
  LET base == FormatInt(g.AwaySkaters) \o <<"v">> \o FormatInt(g.HomeSkaters)
  IN IF g.AwaySkaters # g.HomeSkaters THEN base \o <<" ", "P", "P">>
     ELSE IF ~g.AwayGoalieIn \/ ~g.HomeGoalieIn
     THEN base \o <<" ", "E", "N">>
     ELSE base

StrengthDescription(g) ==
  LET base == FormatInt(g.AwaySkaters) \o <<"v">> \o FormatInt(g.HomeSkaters)
  IN IF ~g.AwayGoalieIn \/ ~g.HomeGoalieIn THEN base \o <<" ", "E", "N">>
     ELSE IF g.AwaySkaters # g.HomeSkaters THEN base \o <<" ", "P", "P">>
     ELSE base

\* ---- inputs ----

\* Bytes of a code: digits, and "X", "+", " " for the bytes that are not.
CodeBytes == {"0", "1", "4", "5", "6", "X", "+", " "}

SituationCodes ==
  [1 .. 4 -> CodeBytes]
    \cup {<<>>, <<"1">>, <<"5", "5">>, <<"1", "5", "5">>,
          <<"1", "5", "5", "1", "1">>, <<"1", "5", "5", "1", "X">>}

\* Skater counts of a GameSituation literal.
SkaterCounts == {-1, 0, 3, 5, 6, 10}

\* ---- state and actions ----

CNoResult == [op |-> "none", code |-> <<>>, out |-> <<>>]

GameSituationIdle ==
  /\ sit = NilSituation
  /\ cres = CNoResult

DoGameSituationFromCode(code) ==
  /\ cres.op = "none"
  /\ sit' = GameSituationFromCode(code)
  /\ cres' = [CNoResult EXCEPT !.op = "FromCode", !.code = code]
  /\ UNCHANGED GameSituationFrame

\* A composite literal &GameSituation{...}.
DoGameSituation(a, ag, h, hg) ==
  /\ cres.op = "none"
  /\ sit' = GameSituation(a, ag, h, hg)
  /\ cres' = [CNoResult EXCEPT !.op = "Literal"]
  /\ UNCHANGED GameSituationFrame

\* The method dereferences its receiver, so it is called on non-nil
\* situations only.
DoStrengthDescription ==
  /\ cres.op \in {"FromCode", "Literal"}
  /\ ~sit.nil
  /\ cres' = [cres EXCEPT !.op = "StrengthDescription",
                          !.out = StrengthDescription(sit)]
  /\ UNCHANGED sit
  /\ UNCHANGED GameSituationFrame

GameSituationNext ==
  \/ \E code \in SituationCodes : DoGameSituationFromCode(code)
  \/ \E a, h \in SkaterCounts : \E ag, hg \in BOOLEAN :
       DoGameSituation(a, ag, h, hg)
  \/ DoStrengthDescription

(***************************************************************************)
(* TeamGameStats (src/nhl/boxscore.go)                                     *)
(*                                                                         *)
(* A SkaterStats or GoalieStats record carries the fields the aggregation  *)
(* reads.  FaceoffWinningPctg, a float64 fraction, is a whole number of    *)
(* 1/PctgScale; a float64 result is the exact quotient [n, d], or NaN or   *)
(* Inf where the IEEE division has no finite value.                        *)
(***************************************************************************)

PctgScale == 100

\* The zero value TeamGameStats{}.
ZeroTeamGameStats ==
  [ShotsOnGoal |-> 0, FaceoffWins |-> 0, FaceoffTotal |-> 0,
   PowerPlayGoals |-> 0, PowerPlayOpportunities |-> 0, PenaltyMinutes |-> 0,
   Hits |-> 0, BlockedShots |-> 0, Giveaways |-> 0, Takeaways |-> 0]

\* A conversion that rounds up instead of truncating.
IntOfFloatCeil(n, d) == IF n % d = 0 THEN n \div d ELSE (n \div d) + 1

\* int(x) of a float64 x = n / d with d > 0: truncation toward zero.
IntOfFloat(n, d) == IF n >= 0 THEN n \div d ELSE 0 - ((0 - n) \div d)

\* A faceoff estimate that does not look at the position.
addFaceoffStatsAnyPosition(teamStats, skater) ==
  IF skater.FaceoffWinningPctg > 0
  THEN LET estimatedFaceoffs == skater.Shifts IN
       [teamStats EXCEPT
          !.FaceoffTotal = @ + estimatedFaceoffs,
          !.FaceoffWins = @ + IntOfFloat(
             (2 * estimatedFaceoffs * skater.FaceoffWinningPctg) + PctgScale,
             2 * PctgScale)]
  ELSE teamStats

\* int(float64(estimatedFaceoffs)*skater.FaceoffWinningPctg + 0.5) is
\* int((2 * shifts * pctg + PctgScale) / (2 * PctgScale)).
addFaceoffStats(teamStats, skater) ==
  IF skater.Position = "C" /\ skater.FaceoffWinningPctg > 0
  THEN LET estimatedFaceoffs == skater.Shifts IN
       [teamStats EXCEPT
          !.FaceoffTotal = @ + estimatedFaceoffs,
          !.FaceoffWins = @ + IntOfFloat(
             (2 * estimatedFaceoffs * skater.FaceoffWinningPctg) + PctgScale,
             2 * PctgScale)]
  ELSE teamStats

\* The body of the loop over allSkaters, from index i on.
RECURSIVE skaterLoop(_, _, _)
skaterLoop(teamStats, allSkaters, i) ==
  IF i > Len(allSkaters) THEN teamStats
  ELSE LET skater == allSkaters[i]
           summed == [teamStats EXCEPT
                        !.ShotsOnGoal = @ + skater.SOG,
                        !.PowerPlayGoals = @ + skater.PowerPlayGoals,
                        !.PenaltyMinutes = @ + skater.PIM,
                        !.Hits = @ + skater.Hits,
                        !.BlockedShots = @ + skater.BlockedShots,
                        !.Giveaways = @ + skater.Giveaways,
                        !.Takeaways = @ + skater.Takeaways]
       IN skaterLoop(addFaceoffStats(summed, skater), allSkaters, i + 1)

\* An aggregation that leaves the defensemen out.
aggregateForwardStats(teamStats, stats) ==
  skaterLoop(teamStats, stats.Forwards, 1)

\* allSkaters is a new slice; the loop reads it through a pointer and
\* writes teamStats only.
aggregateSkaterStats(teamStats, stats) ==
  LET allSkaters == stats.Forwards \o stats.Defense IN
  skaterLoop(teamStats, allSkaters, 1)

RECURSIVE goalieLoop(_, _, _)
goalieLoop(teamStats, goalies, i) ==
  IF i > Len(goalies) THEN teamStats
  ELSE LET goalie == goalies[i]
           withPIM ==
             IF ~goalie.PIM.nil
             THEN [teamStats EXCEPT !.PenaltyMinutes = @ + goalie.PIM.v]
             ELSE teamStats
       IN goalieLoop(
            [withPIM EXCEPT
               !.PowerPlayOpportunities = @ + goalie.PowerPlayGoalsAgainst],
            goalies, i + 1)

aggregateGoalieStats(teamStats, stats) ==
  goalieLoop(teamStats, stats.Goalies, 1)

\* An aggregation that goes on from the totals of the call before.
FromTeamPlayerStatsOnto(stats) ==
  aggregateGoalieStats(aggregateSkaterStats(tstats, stats), stats)

FromTeamPlayerStats(stats) ==
  LET teamStats == ZeroTeamGameStats IN
  aggregateGoalieStats(aggregateSkaterStats(teamStats, stats), stats)

\* float64 values: the quotient n / d of two ints, NaN (0 / 0), Inf (x / 0).
Float(n, d) == [kind |-> "num", n |-> n, d |-> d]

FloatDiv(a, b) ==
  IF b # 0 THEN Float(a, b)
  ELSE IF a = 0 THEN [kind |-> "NaN", n |-> 0, d |-> 0]
  ELSE [kind |-> "Inf", n |-> a, d |-> 0]

FloatTimes100(f) == IF f.kind = "num" THEN Float(f.n * 100, f.d) ELSE f

\* A percentage without the guard on the denominator.
FaceoffPercentageUnguarded(t) ==
  FloatTimes100(FloatDiv(t.FaceoffWins, t.FaceoffTotal))

FaceoffPercentage(t) ==
  IF t.FaceoffTotal > 0
  THEN FloatTimes100(FloatDiv(t.FaceoffWins, t.FaceoffTotal))
  ELSE Float(0, 1)

PowerPlayPercentage(t) ==
  IF t.PowerPlayOpportunities > 0
  THEN FloatTimes100(FloatDiv(t.PowerPlayGoals, t.PowerPlayOpportunities))
  ELSE Float(0, 1)

\* ---- inputs ----

SkaterStats(pos, sog, ppg, pim, hits, blk, give, take, shifts, pctg) ==
  [Position |-> pos, SOG |-> sog, PowerPlayGoals |-> ppg, PIM |-> pim,
   Hits |-> hits, BlockedShots |-> blk, Giveaways |-> give,
   Takeaways |-> take, Shifts |-> shifts, FaceoffWinningPctg |-> pctg]

\* A *int: nil, or a pointer to v.
NilInt == [nil |-> TRUE, v |-> 0]

IntPtr(v) == [nil |-> FALSE, v |-> v]

GoalieStats(pim, ppga) == [PIM |-> pim, PowerPlayGoalsAgainst |-> ppga]

\* Forwards: a center winning 55% over 27 shifts, a center at 0%, a wing
\* with a percentage, a center whose estimate falls on a half (10 x 0.45).
ForwardLines ==
  {SkaterStats("C", 4, 1, 2, 3, 5, 6, 7, 27, 55),
   SkaterStats("C", 1, 0, 0, 2, 1, 0, 1, 20, 0),
   SkaterStats("LW", 3, 0, 4, 8, 2, 1, 0, 22, 60),
   SkaterStats("C", 2, 2, 0, 1, 0, 3, 2, 10, 45)}

\* Defense: a defenseman with a percentage, a center listed with the
\* defense (3 x 0.33), a center at 1.0, and a center whose percentage is
\* written on the 0..100 scale (1.5 here) instead of 0..1.
DefenseLines ==
  {SkaterStats("D", 3, 0, 4, 8, 4, 2, 1, 30, 50),
   SkaterStats("C", 5, 0, 2, 1, 1, 1, 1, 3, 33),
   SkaterStats("C", 2, 0, 0, 4, 3, 1, 2, 25, 100),
   SkaterStats("C", 1, 1, 2, 0, 2, 2, 0, 10, 150)}

GoalieLines ==
  {GoalieStats(NilInt, 2), GoalieStats(IntPtr(2), 0),
   GoalieStats(IntPtr(0), 1)}

MaxForwards == 2

MaxDefense == 1

MaxGoalies == 1

MaxCalls == 2

\* Field values of a TeamGameStats literal.
StatValues == {-1, 0, 1, 3}

\* ---- state and actions ----

NoTeam == [Forwards |-> <<>>, Defense |-> <<>>, Goalies |-> <<>>]

\* before: the argument as it was when the last aggregation began; first:
\* what the first aggregation returned; calls: the number of aggregations;
\* pct: what the last percentage method returned.
TNoResult ==
  [op |-> "none", before |-> NoTeam, first |-> ZeroTeamGameStats,
   calls |-> 0, pct |-> Float(0, 1)]

TeamStatsIdle ==
  /\ team = NoTeam
  /\ tstats = ZeroTeamGameStats
  /\ tres = TNoResult

\* The box score decoder fills the three lists in this order.
AppendForward(s) ==
  /\ tres.op = "none"
  /\ team.Defense = <<>> /\ team.Goalies = <<>>
  /\ Len(team.Forwards) < MaxForwards
  /\ team' = [team EXCEPT !.Forwards = Append(@, s)]
  /\ UNCHANGED <<tstats, tres>>
  /\ UNCHANGED TeamStatsFrame

AppendDefense(s) ==
  /\ tres.op = "none"
  /\ team.Goalies = <<>>
  /\ Len(team.Defense) < MaxDefense
  /\ team' = [team EXCEPT !.Defense = Append(@, s)]
  /\ UNCHANGED <<tstats, tres>>
  /\ UNCHANGED TeamStatsFrame

AppendGoalie(g) ==
  /\ tres.op = "none"
  /\ Len(team.Goalies) < MaxGoalies
  /\ team' = [team EXCEPT !.Goalies = Append(@, g)]
  /\ UNCHANGED <<tstats, tres>>
  /\ UNCHANGED TeamStatsFrame

\* gameStats := FromTeamPlayerStats(&teamStats); nothing in the call
\* assigns through stats.
DoFromTeamPlayerStats ==
  /\ tres.calls < MaxCalls
  /\ LET r == FromTeamPlayerStats(team) IN
       /\ tstats' = r
       /\ tres' = [tres EXCEPT
                     !.op = "FromTeamPlayerStats",
                     !.before = team,
                     !.first = IF tres.calls = 0 THEN r ELSE @,
                     !.calls = @ + 1]
  /\ team' = team
  /\ UNCHANGED TeamStatsFrame

\* A composite literal TeamGameStats{...}.
DoTeamGameStats(wins, total, goals, opportunities) ==
  /\ tres.op = "none"
  /\ team = NoTeam
  /\ tstats' = [ZeroTeamGameStats EXCEPT
                  !.FaceoffWins = wins, !.FaceoffTotal = total,
                  !.PowerPlayGoals = goals,
                  !.PowerPlayOpportunities = opportunities]
  /\ tres' = [tres EXCEPT !.op = "Literal"]
  /\ UNCHANGED team
  /\ UNCHANGED TeamStatsFrame

DoFaceoffPercentage ==
  /\ tres' = [tres EXCEPT !.op = "FaceoffPercentage",
                          !.pct = FaceoffPercentage(tstats)]
  /\ UNCHANGED <<team, tstats>>
  /\ UNCHANGED TeamStatsFrame

DoPowerPlayPercentage ==
  /\ tres' = [tres EXCEPT !.op = "PowerPlayPercentage",
                          !.pct = PowerPlayPercentage(tstats)]
  /\ UNCHANGED <<team, tstats>>
  /\ UNCHANGED TeamStatsFrame

TeamStatsNext ==
  \/ \E s \in ForwardLines : AppendForward(s)
  \/ \E s \in DefenseLines : AppendDefense(s)
  \/ \E g \in GoalieLines : AppendGoalie(g)
  \/ DoFromTeamPlayerStats
  \/ \E w, t, g, o \in StatValues : DoTeamGameStats(w, t, g, o)
  \/ DoFaceoffPercentage
  \/ DoPowerPlayPercentage

(***************************************************************************)
(* PlayByPlay.RecentPlays (src/nhl/game_center.go)                         *)
(*                                                                         *)
(* A play is its EventID.  A *PlayEvent is the 0-based index of the        *)
(* element of p.Plays it points to; a slice result is nil or a sequence.   *)
(***************************************************************************)

NilPlays == [nil |-> TRUE, elems |-> <<>>]

\* &p.Plays[i]
PlayPtr(i) == [idx |-> i]

\* *ptr
PlayAt(p, ptr) == p.Plays[ptr.idx + 1]

\* A selection that starts from the first play.
RecentPlaysOldestFirst(p, count) ==
  IF count <= 0 THEN NilPlays
  ELSE LET playCount == Len(p.Plays) IN
       IF playCount = 0 THEN NilPlays
       ELSE LET n == IF count > playCount THEN playCount ELSE count IN
            [nil |-> FALSE, elems |-> [i \in 1 .. n |-> PlayPtr(i - 1)]]

\* recent[i] = &p.Plays[playCount-1-i] for i = 0 .. count-1; elems[i + 1]
\* is recent[i].
RecentPlays(p, count) ==
  IF count <= 0 THEN NilPlays
  ELSE LET playCount == Len(p.Plays) IN
       IF playCount = 0 THEN NilPlays
       ELSE LET n == IF count > playCount THEN playCount ELSE count IN
            [nil |-> FALSE,
             elems |-> [i \in 1 .. n |-> PlayPtr(playCount - 1 - (i - 1))]]

\* ---- inputs ----

MaxPlays == 3

EventIDs == {1, 2, 3}

RecentCounts == {-1, 0, 1, 2, MaxPlays, MaxPlays + 7}

\* ---- state and actions ----

NoPlays == [Plays |-> <<>>]

RNoResult ==
  [op |-> "none", count |-> 0, before |-> NoPlays, recent |-> NilPlays]

PlayByPlayIdle ==
  /\ pbp = NoPlays
  /\ rres = RNoResult

\* The play-by-play decoder appends the plays in feed order.
AppendPlay(e) ==
  /\ rres.op = "none"
  /\ Len(pbp.Plays) < MaxPlays
  /\ pbp' = [pbp EXCEPT !.Plays = Append(@, e)]
  /\ UNCHANGED rres
  /\ UNCHANGED PlayByPlayFrame

\* recent := p.RecentPlays(count); the method only reads p.
DoRecentPlays(count) ==
  /\ rres' = [op |-> "RecentPlays", count |-> count, before |-> pbp,
              recent |-> RecentPlays(pbp, count)]
  /\ pbp' = pbp
  /\ UNCHANGED PlayByPlayFrame

PlayByPlayNext ==
  \/ \E e \in EventIDs : AppendPlay(e)
  \/ \E count \in RecentCounts : DoRecentPlays(count)

(***************************************************************************)
(* Client (src/nhl/game_type.go) and the error types (src/nhl/errors.go)   *)
(*                                                                         *)
(* An error value is a record tagged with its Go type; the nil error is    *)
(* NilError.  A resource is the path handed to getJSON, split into its     *)
(* fixed part and the formatted argument.  The server and the transport    *)
(* are the environment: a response is what httpClient.Do and io.ReadAll    *)
(* return, together with the body received.                                *)
(***************************************************************************)

NilError == [type |-> "nil"]

\* An error of another package (net, url, io, encoding/json).
Cause(what) == [type |-> "cause", what |-> what]

\* fmt.Errorf("<msg>: %w", err)
Errorf(msg, err) == [type |-> "wrapError", msg |-> msg, err |-> err]

\* fmt.Errorf without %w
ErrorfPlain(msg, arg) == [type |-> "errorString", msg |-> msg, arg |-> arg]

NewError(message, statusCode) ==
  [Message |-> message, StatusCode |-> statusCode]

NewResourceNotFoundError(message) ==
  [type |-> "ResourceNotFoundError", error |-> NewError(message, 404)]

NewRateLimitExceededError(message) ==
  [type |-> "RateLimitExceededError", error |-> NewError(message, 429)]

NewServerError(statusCode, message) ==
  [type |-> "ServerError", error |-> NewError(message, statusCode)]

NewBadRequestError(message) ==
  [type |-> "BadRequestError", error |-> NewError(message, 400)]

NewUnauthorizedError(message) ==
  [type |-> "UnauthorizedError", error |-> NewError(message, 401)]

NewAPIError(statusCode, message) ==
  [type |-> "APIError", error |-> NewError(message, statusCode)]

NewRequestError(err) == [type |-> "RequestError", Err |-> err]

NewJSONError(err) == [type |-> "JSONError", Err |-> err]

\* The Unwrap method of the error, nil for a type without one.
Unwrap(e) ==
  CASE e.type \in {"RequestError", "JSONError"} -> e.Err
    [] e.type = "wrapError" -> e.err
    [] OTHER -> NilError

\* errors.Is(e, target)
RECURSIVE ErrorsIs(_, _)
ErrorsIs(e, target) ==
  IF e = NilError THEN FALSE
  ELSE IF e = target THEN TRUE
  ELSE ErrorsIs(Unwrap(e), target)

NoResource == [path |-> "", arg |-> <<>>]

Resource(path, arg) == [path |-> path, arg |-> arg]

\* A message: a text, and the resource formatted into it.
Message(text, resource) == [text |-> text, resource |-> resource]

\* http.StatusText
StatusText(statusCode) ==
  CASE statusCode = 100 -> "Continue"
    [] statusCode = 204 -> "No Content"
    [] statusCode = 304 -> "Not Modified"
    [] statusCode = 400 -> "Bad Request"
    [] statusCode = 401 -> "Unauthorized"
    [] statusCode = 403 -> "Forbidden"
    [] statusCode = 404 -> "Not Found"
    [] statusCode = 429 -> "Too Many Requests"
    [] statusCode = 500 -> "Internal Server Error"
    [] statusCode = 503 -> "Service Unavailable"
    [] OTHER -> ""

\* A mapping that knows 500 only as a server error.
ErrorFromStatusCodeOnly500(statusCode, message) ==
  LET msg == IF message.text = ""
             THEN Message(StatusText(statusCode), NoResource)
             ELSE message
  IN CASE statusCode = 400 -> NewBadRequestError(msg)
       [] statusCode = 401 -> NewUnauthorizedError(msg)
       [] statusCode = 404 -> NewResourceNotFoundError(msg)
       [] statusCode = 429 -> NewRateLimitExceededError(msg)
       [] OTHER -> IF statusCode = 500
                   THEN NewServerError(statusCode, msg)
                   ELSE NewAPIError(statusCode, msg)

ErrorFromStatusCode(statusCode, message) ==
  LET msg == IF message.text = ""
             THEN Message(StatusText(statusCode), NoResource)
             ELSE message
  IN CASE statusCode = 400 -> NewBadRequestError(msg)
       [] statusCode = 401 -> NewUnauthorizedError(msg)
       [] statusCode = 404 -> NewResourceNotFoundError(msg)
       [] statusCode = 429 -> NewRateLimitExceededError(msg)
       [] OTHER -> IF statusCode >= 500
                   THEN NewServerError(statusCode, msg)
                   ELSE NewAPIError(statusCode, msg)

\* getJSON up to the call of httpClient.Do: the URL is parsed only when
\* there are query parameters; http.NewRequestWithContext rejects a URL it
\* cannot parse and a nil context.  build is what is wrong with the
\* request, "ok" when nothing is.
getJSONRequest(build, hasQuery) ==
  IF hasQuery /\ build = "badURL"
  THEN NewRequestError(Errorf("parsing URL %s: %w", Cause("url.Parse")))
  ELSE IF build # "ok"
  THEN NewRequestError(Errorf("creating request: %w", Cause(build)))
  ELSE NilError

\* A second half that reports every failure after the request as a status
\* error.
getJSONResponseAsStatus(resource, resp, decodes) ==
  IF ~resp.done
  THEN ErrorFromStatusCode(503, Message("Request to %s failed", resource))
  ELSE IF resp.status < 200 \/ resp.status >= 300
  THEN ErrorFromStatusCode(resp.status,
                           Message("Request to %s failed", resource))
  ELSE IF ~resp.read
  THEN ErrorFromStatusCode(500, Message("Request to %s failed", resource))
  ELSE IF ~decodes
  THEN ErrorFromStatusCode(400, Message("Request to %s failed", resource))
  ELSE NilError

\* getJSON from the return of httpClient.Do on; decodes says whether
\* json.Unmarshal accepts the body for the result type.
getJSONResponse(resource, resp, decodes) ==
  IF ~resp.done
  THEN NewRequestError(Errorf("executing request to %s: %w", resp.cause))
  ELSE IF resp.status < 200 \/ resp.status >= 300
  THEN ErrorFromStatusCode(resp.status,
                           Message("Request to %s failed", resource))
  ELSE IF ~resp.read
  THEN NewRequestError(Errorf("reading response body: %w", resp.cause))
  ELSE IF ~decodes
  THEN NewJSONError(Errorf("unmarshaling response from %s: %w",
                           Cause("json.Unmarshal")))
  ELSE NilError

\* Which statement of getJSON failed, "" when none did.
getJSONFailure(resp, decodes) ==
  IF ~resp.done THEN "transport"
  ELSE IF resp.status < 200 \/ resp.status >= 300 THEN "status"
  ELSE IF ~resp.read THEN "read"
  ELSE IF ~decodes THEN "decode"
  ELSE ""

\* The zero value GameDate{}.
ZeroGameDate == [isNow |-> FALSE, date |-> ZeroTime]

\* A SeasonInfo whose three fields were decoded with the results id, start
\* and end; the decoding fails when one of them does.
SeasonInfo(id, start, end) ==
  [err |-> id.err \/ start.err \/ end.err,
   val |-> [ID |-> id.val, StandingsStart |-> start.val,
            StandingsEnd |-> end.val]]

\* json.Unmarshal of one element of "seasons" into a SeasonInfo.
DecodeSeasonInfo(c, w) ==
  SeasonInfo(SeasonUnmarshalJSON(c, NewSeason(0), w.id),
             GameDateUnmarshalJSON(ZeroGameDate, w.standingsStart),
             GameDateUnmarshalJSON(ZeroGameDate, w.standingsEnd))

\* A SeasonsResponse whose elements were decoded with the results each.
SeasonsResponse(json, each) ==
  IF ~json \/ \E i \in 1 .. Len(each) : each[i].err
  THEN [err |-> TRUE, val |-> <<>>]
  ELSE [err |-> FALSE, val |-> [i \in 1 .. Len(each) |-> each[i].val]]

\* json.Unmarshal(body, &response) for a SeasonsResponse.
DecodeSeasons(c, body) ==
  SeasonsResponse(body.json,
                  [i \in 1 .. Len(body.seasons) |->
                     DecodeSeasonInfo(c, body.seasons[i])])

ToInt64(c, s) == ToInt(c, s)

\* The loop over seasons: the index of the first entry whose ID matches,
\* 0 for seasonInfo == nil.
FindSeasonInfo(c, seasons, s) ==
  LET seasonID == ToInt64(c, s)
      hits == {i \in 1 .. Len(seasons) : ToInt64(c, seasons[i].ID) = seasonID}
  IN IF hits = {} THEN 0 ELSE CHOOSE i \in hits : \A j \in hits : i <= j

\* A resource built from the start of the season's range.
StandingsResourceStart(seasonInfo) ==
  Resource("standings/%s", GameDateString(seasonInfo.StandingsStart, 0))

\* fmt.Sprintf("standings/%s", seasonInfo.StandingsEnd): %s of a GameDate
\* is its String().
StandingsResource(seasonInfo) ==
  Resource("standings/%s", GameDateString(seasonInfo.StandingsEnd, 0))

ManifestResource == Resource("standings-season", <<>>)

ScheduleResource(dateString) == Resource("schedule/%s", dateString)

NilGames == [nil |-> TRUE, elems |-> <<>>]

Games(elems) == [nil |-> FALSE, elems |-> elems]

\* An extraction that keeps the last entry with the date.
extractDailyScheduleLast(weeklySchedule, dateString) ==
  LET week == weeklySchedule.GameWeek
      hits == {i \in 1 .. Len(week) : week[i].Date = dateString}
      found == IF hits = {} THEN NilGames
               ELSE week[CHOOSE i \in hits : \A j \in hits : j <= i].Games
      games == IF found.nil THEN Games(<<>>) ELSE found
  IN [NextStartDate |-> weeklySchedule.NextStartDate,
      PreviousStartDate |-> weeklySchedule.PreviousStartDate,
      Date |-> dateString, Games |-> games,
      NumberOfGames |-> Len(games.elems)]

\* The loop stops at the first entry with the date; a nil games is replaced
\* by an empty slice.
extractDailySchedule(weeklySchedule, dateString) ==
  LET week == weeklySchedule.GameWeek
      hits == {i \in 1 .. Len(week) : week[i].Date = dateString}
      found == IF hits = {} THEN NilGames
               ELSE week[CHOOSE i \in hits : \A j \in hits : i <= j].Games
      games == IF found.nil THEN Games(<<>>) ELSE found
  IN [NextStartDate |-> weeklySchedule.NextStartDate,
      PreviousStartDate |-> weeklySchedule.PreviousStartDate,
      Date |-> dateString, Games |-> games,
      NumberOfGames |-> Len(games.elems)]

\* json.Unmarshal(body, &response) for a WeeklyScheduleResponse.
DecodeWeeklySchedule(body) ==
  [err |-> ~body.json,
   val |-> [NextStartDate |-> body.next, PreviousStartDate |-> body.prev,
            GameWeek |-> IF body.json THEN body.gameWeek ELSE <<>>]]

\* ---- inputs ----

MaxManifest == 2

MaxGameWeek == 2

StatusCodes ==
  {100, 199, 200, 204, 299, 300, 304, 400, 401, 403, 404, 429, 499, 500,
   503, 599}

\* ErrorFromStatusCode takes any int.
StatusArgs == StatusCodes \cup {-1, 0, 600}

Messages == {Message("", NoResource), Message("boom", NoResource)}

\* What the environment returns for a request: no response at all, a
\* response with a failure status, a body that cannot be read, or a body.
NoBody == [json |-> FALSE]

Response(done, status, read, cause, body) ==
  [done |-> done, status |-> status, read |-> read, cause |-> cause,
   body |-> body]

Responses(bodies, none) ==
  {Response(FALSE, 0, FALSE, Cause(w), none) :
     w \in {"dial tcp: connection refused", "context deadline exceeded"}}
    \cup {Response(TRUE, s, TRUE, NilError, none) :
            s \in {c \in StatusCodes : c < 200 \/ c >= 300}}
    \cup {Response(TRUE, s, FALSE, Cause("unexpected EOF"), none) :
            s \in {200, 299}}
    \cup {Response(TRUE, 200, TRUE, NilError, b) : b \in bodies}
    \cup {Response(TRUE, 204, TRUE, NilError, none)}

RawBodies == {[json |-> TRUE], NoBody}

\* Date strings of the feed.
Day(year, month, day) == year \o <<"-">> \o month \o <<"-">> \o day

Y2022 == <<"2", "0", "2", "2">>

Y2023 == <<"2", "0", "2", "3">>

Y2024 == <<"2", "0", "2", "4">>

M01 == <<"0", "1">>

M04 == <<"0", "4">>

M06 == <<"0", "6">>

M10 == <<"1", "0">>

M12 == <<"1", "2">>

DateToken(year, month, day) == StrTok(Day(year, month, day))

WireSeasonInfo(id, start, end) ==
  [id |-> id, standingsStart |-> start, standingsEnd |-> end]

\* Elements of "seasons": 2023-24, 2023-24 again with another range,
\* 2022-23, a running season whose end is "now", and an id that is not a
\* season.
WireSeasonInfos ==
  {WireSeasonInfo(NumTok(20232024), DateToken(Y2023, M10, <<"1", "0">>),
                  DateToken(Y2024, M04, <<"1", "8">>)),
   WireSeasonInfo(NumTok(20232024), DateToken(Y2023, M10, <<"0", "1">>),
                  DateToken(Y2024, M06, <<"3", "0">>)),
   WireSeasonInfo(NumTok(20222023), DateToken(Y2022, M10, <<"0", "7">>),
                  DateToken(Y2023, M04, <<"1", "4">>)),
   WireSeasonInfo(NumTok(20242025), DateToken(Y2024, M10, <<"0", "4">>),
                  StrTok(NowString)),
   WireSeasonInfo(NumTok(2023), DateToken(Y2023, M10, <<"1", "0">>),
                  DateToken(Y2024, M04, <<"1", "8">>))}

NoManifest == [json |-> FALSE, seasons |-> <<>>]

ManifestBodies ==
  {NoManifest}
    \cup {[json |-> TRUE, seasons |-> w] :
            w \in UNION {[1 .. n -> WireSeasonInfos] : n \in 0 .. MaxManifest}}

RequestedSeasons == {NewSeason(y) : y \in {2021, 2023, 2024, 9999}}

NoStandings == [json |-> FALSE, standings |-> <<>>]

StandingsBodies ==
  {NoStandings, [json |-> TRUE, standings |-> <<>>],
   [json |-> TRUE, standings |-> <<"TOR", "MTL">>]}

GameDay(date, games) == [Date |-> date, Games |-> games]

\* Elements of "gameWeek": a day with one game, the same day again with
\* other games, a day with an empty list, and a day whose "games" is null.
GameDays ==
  {GameDay(Day(Y2024, M01, <<"0", "8">>), Games(<<1>>)),
   GameDay(Day(Y2024, M01, <<"0", "8">>), Games(<<2, 3>>)),
   GameDay(Day(Y2024, M01, <<"0", "9">>), Games(<<>>)),
   GameDay(Day(Y2024, M01, <<"0", "9">>), NilGames),
   GameDay(Day(Y2024, M01, <<"1", "0">>), NilGames)}

NoWeekly ==
  [json |-> FALSE, next |-> "", prev |-> "", gameWeek |-> <<>>]

WeeklyBodies ==
  {NoWeekly}
    \cup {[json |-> TRUE, next |-> "2024-01-15", prev |-> "2024-01-01",
           gameWeek |-> w] :
            w \in UNION {[1 .. n -> GameDays] : n \in 0 .. MaxGameWeek}}

RequestedDates ==
  {Now, FromYMD(2024, 1, 8), FromYMD(2024, 1, 9), FromYMD(2024, 1, 11)}

RequestedDateStrings ==
  {Day(Y2024, M01, <<"0", "8">>), Day(Y2024, M01, <<"1", "0">>), <<>>,
   Day(Y2024, <<"1">>, <<"8">>)}

\* ---- state and actions ----

NoDaily ==
  [NextStartDate |-> "", PreviousStartDate |-> "", Date |-> <<>>,
   Games |-> NilGames, NumberOfGames |-> 0]

\* method, pc: the call in progress and where it is; resource: the request
\* it waits for; fail, status, cause: which statement of getJSON failed and
\* what the environment had returned; err and the fields after it: what the
\* call returned.
NoCall ==
  [method |-> "none", pc |-> "idle", copy |-> "A", season |-> NewSeason(0),
   dateString |-> <<>>, message |-> Message("", NoResource),
   resource |-> NoResource, fail |-> "", status |-> 0, cause |-> NilError,
   seasons |-> <<>>, found |-> 0, weekly |-> DecodeWeeklySchedule(NoWeekly).val,
   err |-> NilError, standings |-> <<>>, daily |-> NoDaily]

ClientIdle ==
  /\ cl = NoCall
  /\ reqs = <<>>

\* What a call records when getJSON returns after the response resp.
Returned(call, resp, decodes) ==
  [call EXCEPT !.pc = "done",
               !.fail = getJSONFailure(resp, decodes),
               !.status = IF resp.done THEN resp.status ELSE 0,
               !.cause = IF ~resp.done \/ ~resp.read THEN resp.cause
                         ELSE IF ~decodes THEN Cause("json.Unmarshal")
                         ELSE NilError,
               !.err = getJSONResponse(call.resource, resp, decodes)]

\* The first half of a getJSON call for resource: the request is sent, or
\* the call returns the error of building it.
Request(call, build, hasQuery, resource) ==
  LET err == getJSONRequest(build, hasQuery) IN
  IF err # NilError
  THEN /\ cl' = [call EXCEPT !.pc = "done", !.resource = resource,
                             !.fail = "build", !.err = err,
                             !.cause = IF hasQuery /\ build = "badURL"
                                       THEN Cause("url.Parse")
                                       ELSE Cause(build)]
       /\ UNCHANGED reqs
  ELSE /\ cl' = [call EXCEPT !.pc = "await", !.resource = resource]
       /\ reqs' = Append(reqs, resource)

DoErrorFromStatusCode(statusCode, message) ==
  /\ cl.pc = "idle"
  /\ cl' = [cl EXCEPT !.method = "ErrorFromStatusCode", !.pc = "done",
                      !.status = statusCode, !.message = message,
                      !.err = ErrorFromStatusCode(statusCode, message)]
  /\ UNCHANGED reqs
  /\ UNCHANGED ClientFrame

\* c.getJSON(ctx, endpoint, resource, queryParams, &result)
CallGetJSON(build, hasQuery) ==
  /\ cl.pc = "idle"
  /\ Request([cl EXCEPT !.method = "getJSON"], build, hasQuery,
             Resource("score/%s", Day(Y2024, M01, <<"0", "8">>)))
  /\ UNCHANGED ClientFrame

GetJSONResponse(resp) ==
  /\ cl.method = "getJSON" /\ cl.pc = "await"
  /\ cl' = Returned(cl, resp, resp.body.json)
  /\ UNCHANGED reqs
  /\ UNCHANGED ClientFrame

\* c.LeagueStandingsForSeason(ctx, season) up to the manifest request.
CallLeagueStandingsForSeason(c, s, build) ==
  /\ cl.pc = "idle"
  /\ Request([cl EXCEPT !.method = "LeagueStandingsForSeason", !.copy = c,
                        !.season = s],
             build, FALSE, ManifestResource)
  /\ UNCHANGED ClientFrame

\* The rest of LeagueStandingsForSeason once SeasonStandingManifest has
\* returned seasons: the season is looked up and, when it is listed, the
\* standings request is sent.
LookupAndRequest(back, seasons, i) ==
  IF i = 0
  THEN /\ cl' = [back EXCEPT !.seasons = seasons, !.fail = "lookup",
                             !.err = ErrorfPlain("invalid season: %s",
                                                 back.season)]
       /\ UNCHANGED reqs
  ELSE Request([back EXCEPT !.seasons = seasons, !.found = i], "ok", FALSE,
               StandingsResource(seasons[i]))

\* The manifest response arrives: SeasonStandingManifest returns.
ManifestResponse(resp) ==
  /\ cl.method = "LeagueStandingsForSeason" /\ cl.pc = "await"
  /\ cl.resource = ManifestResource
  /\ \E decoded \in {DecodeSeasons(cl.copy, resp.body)} :
       \E back \in {Returned(cl, resp, ~decoded.err)} :
         IF back.err # NilError
         THEN /\ cl' = back
              /\ UNCHANGED reqs
         ELSE LookupAndRequest(
                back, decoded.val,
                FindSeasonInfo(cl.copy, decoded.val, cl.season))
  /\ UNCHANGED ClientFrame

StandingsResponse(resp) ==
  /\ cl.method = "LeagueStandingsForSeason" /\ cl.pc = "await"
  /\ cl.resource # ManifestResource
  /\ LET back == Returned(cl, resp, resp.body.json) IN
       cl' = [back EXCEPT !.standings = IF back.err = NilError
                                        THEN resp.body.standings ELSE <<>>]
  /\ UNCHANGED reqs
  /\ UNCHANGED ClientFrame

\* c.DailySchedule(ctx, date), called at time now, up to the request.
CallDailySchedule(date, now, build) ==
  /\ cl.pc = "idle"
  /\ \E dateString \in {GameDateToAPIString(date, now)} :
       Request([cl EXCEPT !.method = "DailySchedule",
                          !.dateString = dateString],
               build, FALSE, ScheduleResource(dateString))
  /\ UNCHANGED ClientFrame

\* fetchWeeklySchedule returns; the day is extracted.
ScheduleResponse(resp) ==
  /\ cl.method = "DailySchedule" /\ cl.pc = "await"
  /\ LET decoded == DecodeWeeklySchedule(resp.body)
         back == Returned(cl, resp, ~decoded.err)
     IN cl' = IF back.err # NilError THEN back
              ELSE [back EXCEPT
                      !.weekly = decoded.val,
                      !.daily = extractDailySchedule(decoded.val,
                                                     cl.dateString)]
  /\ UNCHANGED reqs
  /\ UNCHANGED ClientFrame

\* c.extractDailySchedule(weeklySchedule, dateString)
DoExtractDailySchedule(body, dateString) ==
  /\ cl.pc = "idle"
  /\ body.json
  /\ LET weeklySchedule == DecodeWeeklySchedule(body).val IN
       cl' = [cl EXCEPT !.method = "extractDailySchedule", !.pc = "done",
                        !.dateString = dateString,
                        !.weekly = weeklySchedule,
                        !.daily = extractDailySchedule(weeklySchedule,
                                                       dateString)]
  /\ UNCHANGED reqs
  /\ UNCHANGED ClientFrame

ClientNext ==
  \/ \E statusCode \in StatusArgs, message \in Messages :
       DoErrorFromStatusCode(statusCode, message)
  \/ \E build \in {"ok", "badURL", "nil Context"}, hasQuery \in BOOLEAN :
       CallGetJSON(build, hasQuery)
  \/ \E resp \in Responses(RawBodies, NoBody) : GetJSONResponse(resp)
  \/ \E c \in SeasonCopies, s \in RequestedSeasons, build \in {"ok", "badURL"} :
       CallLeagueStandingsForSeason(c, s, build)
  \/ \E resp \in Responses(ManifestBodies, NoManifest) : ManifestResponse(resp)
  \/ \E resp \in Responses(StandingsBodies, NoStandings) :
       StandingsResponse(resp)
  \/ \E date \in RequestedDates, now \in ClockDays, build \in {"ok", "badURL"} :
       CallDailySchedule(date, now, build)
  \/ \E resp \in Responses(WeeklyBodies, NoWeekly) : ScheduleResponse(resp)
  \/ \E body \in WeeklyBodies, dateString \in RequestedDateStrings :
       DoExtractDailySchedule(body, dateString)

(***************************************************************************)
(* Goroutines sharing one GameDate variable (src/unnamed/part_006)         *)
(*                                                                         *)
(* A GameDate is a struct of two fields.  A method with a value receiver   *)
(* copies the variable it is called on, field by field; UnmarshalJSON has  *)
(* a pointer receiver and stores a new struct through it, field by field.  *)
(* Nothing orders the accesses of two goroutines (the package has no lock  *)
(* and no atomic), so they interleave in any order.                        *)
(***************************************************************************)

GameDateFields == {"isNow", "date"}

\* The calls a goroutine makes: methods of the shared variable and a
\* constructor.
GoCalls ==
  {[op |-> "String", data |-> NullTok, days |-> 0],
   [op |-> "AddDays", data |-> NullTok, days |-> 1],
   [op |-> "UnmarshalJSON", data |-> StrTok(NowString), days |-> 0],
   [op |-> "UnmarshalJSON", data |-> DateToken(Y2023, M12, <<"3", "1">>),
    days |-> 0],
   [op |-> "UnmarshalJSON", data |-> BadTok, days |-> 0],
   [op |-> "FromYMD", data |-> NullTok, days |-> 0]}

\* The fields of the variable a call loads: the copy of a value receiver.
Reads(call) ==
  IF call.op \in {"String", "AddDays"} THEN GameDateFields ELSE {}

\* What the call returns and, for UnmarshalJSON, the struct it assigns,
\* given the copy of the receiver it works on.
Outcome(call, local, now) ==
  CASE call.op = "String" ->
         [str |-> GameDateString(local, now), val |-> local, err |-> FALSE,
          assigns |-> FALSE]
    [] call.op = "AddDays" ->
         [str |-> <<>>, val |-> AddDays(local, now, call.days), err |-> FALSE,
          assigns |-> FALSE]
    [] call.op = "UnmarshalJSON" ->
         LET r == GameDateUnmarshalJSON(local, call.data) IN
         [str |-> <<>>, val |-> r.val, err |-> r.err, assigns |-> ~r.err]
    [] OTHER ->
         [str |-> <<>>, val |-> FromYMD(2024, 1, 15), err |-> FALSE,
          assigns |-> FALSE]

\* Stores as they would be if AddDays updated its receiver in place.
WritesInPlace(call, out) ==
  IF call.op = "AddDays" \/ out.assigns THEN GameDateFields ELSE {}

\* The fields of the variable a call stores: *gd = ... in UnmarshalJSON.
Writes(call, out) == IF out.assigns THEN GameDateFields ELSE {}

\* The call executed alone on the variable holding s.
Alone(call, s, now) ==
  LET out == Outcome(call, s, now) IN
  [out |-> out, next |-> IF Writes(call, out) # {} THEN out.val ELSE s]

\* ---- inputs ----

NumGoroutines == 2

Goroutines == 1 .. NumGoroutines

SharedDates == {FromYMD(2024, 1, 15), Now}

\* ---- state and actions ----

NoOutcome == [str |-> <<>>, val |-> ZeroGameDate, err |-> FALSE,
              assigns |-> FALSE]

IdleGoroutine ==
  [pc |-> "idle", call |-> [op |-> "none", data |-> NullTok, days |-> 0],
   pend |-> {}, local |-> ZeroGameDate, out |-> NoOutcome]

ConcurrentIdle ==
  /\ mem = [cur |-> ZeroGameDate, init |-> ZeroGameDate]
  /\ gor = [g \in Goroutines |-> IdleGoroutine]

\* After its last load a call computes its outcome and goes on to its
\* stores; after its last store it returns.
AfterLoads(g) ==
  LET out == Outcome(g.call, g.local, clock)
      stores == Writes(g.call, out)
  IN [g EXCEPT !.out = out, !.pend = stores,
               !.pc = IF stores = {} THEN "done" ELSE "store"]

\* go func() { ... }()
Go(i, call) ==
  /\ gor[i].pc = "idle"
  /\ LET g == [IdleGoroutine EXCEPT !.call = call, !.pend = Reads(call),
                                    !.pc = "load"]
     IN gor' = [gor EXCEPT ![i] = IF g.pend = {} THEN AfterLoads(g) ELSE g]
  /\ UNCHANGED mem
  /\ UNCHANGED ConcurrentFrame

Load(i, f) ==
  /\ gor[i].pc = "load"
  /\ f \in gor[i].pend
  /\ LET g == [gor[i] EXCEPT !.pend = @ \ {f},
                             !.local = [@ EXCEPT ![f] = mem.cur[f]]]
     IN gor' = [gor EXCEPT ![i] = IF g.pend = {} THEN AfterLoads(g) ELSE g]
  /\ UNCHANGED mem
  /\ UNCHANGED ConcurrentFrame

Store(i, f) ==
  /\ gor[i].pc = "store"
  /\ f \in gor[i].pend
  /\ mem' = [mem EXCEPT !.cur = [@ EXCEPT ![f] = gor[i].out.val[f]]]
  /\ gor' = [gor EXCEPT ![i] =
               [@ EXCEPT !.pend = @ \ {f},
                         !.pc = IF gor[i].pend = {f} THEN "done"
                                ELSE "store"]]
  /\ UNCHANGED ConcurrentFrame

ConcurrentNext ==
  \/ \E i \in Goroutines, call \in GoCalls : Go(i, call)
  \/ \E i \in Goroutines, f \in GameDateFields : Load(i, f)
  \/ \E i \in Goroutines, f \in GameDateFields : Store(i, f)

(***************************************************************************)
(* Specifications                                                          *)
(***************************************************************************)

EnumIdle ==
  /\ ev = [type |-> "Position", val |-> "C"]
  /\ eres = NoResult

\* A valid Position before any call.
EnumInit ==
  /\ ev = [type |-> "Position", val |-> "C"]
  /\ eres = NoResult
  /\ SeasonIdle
  /\ GameIDIdle
  /\ GameDateIdle
  /\ GameSituationIdle
  /\ TeamStatsIdle
  /\ PlayByPlayIdle
  /\ ClientIdle
  /\ ConcurrentIdle

SpecEnum == EnumInit /\ [][EnumNext]_vars

\* A Season from NewSeason, in either copy of the code.
SeasonInit ==
  /\ scopy \in SeasonCopies
  /\ season \in {NewSeason(y) : y \in SeasonYears}
  /\ sres = SNoResult
  /\ EnumIdle
  /\ GameIDIdle
  /\ GameDateIdle
  /\ GameSituationIdle
  /\ TeamStatsIdle
  /\ PlayByPlayIdle
  /\ ClientIdle
  /\ ConcurrentIdle

SpecSeason == SeasonInit /\ [][SeasonNext]_vars

\* A GameID variable before it is assigned or decoded into.
GameIDInit ==
  /\ gid \in {I64Zero, I64(FALSE, 202302, 1)}
  /\ gres = GNoResult
  /\ EnumIdle
  /\ SeasonIdle
  /\ GameDateIdle
  /\ GameSituationIdle
  /\ TeamStatsIdle
  /\ PlayByPlayIdle
  /\ ClientIdle
  /\ ConcurrentIdle

SpecGameID == GameIDInit /\ [][GameIDNext]_vars

\* A GameDate variable before it is assigned or decoded into.
GameDateInit ==
  /\ gd \in {Now, FromYMD(2000, 1, 1)}
  /\ dres = DNoResult
  /\ clock \in ClockDays
  /\ EnumIdle
  /\ SeasonIdle
  /\ GameIDIdle
  /\ GameSituationIdle
  /\ TeamStatsIdle
  /\ PlayByPlayIdle
  /\ ClientIdle
  /\ ConcurrentIdle

SpecGameDate == GameDateInit /\ [][GameDateNext]_vars

\* No situation parsed yet.
GameSituationInit ==
  /\ sit = NilSituation
  /\ cres = CNoResult
  /\ /\ PlayByPlayIdle
  /\ EnumIdle
  /\ SeasonIdle
  /\ GameIDIdle
  /\ GameDateIdle
  /\ TeamStatsIdle
  /\ PlayByPlayIdle
  /\ ClientIdle
  /\ ConcurrentIdle

SpecGameSituation == GameSituationInit /\ [][GameSituationNext]_vars

\* An empty TeamPlayerStats, nothing aggregated yet.
TeamStatsInit ==
  /\ team = NoTeam
  /\ tstats = ZeroTeamGameStats
  /\ tres = TNoResult
  /\ EnumIdle
  /\ SeasonIdle
  /\ GameIDIdle
  /\ GameDateIdle
  /\ GameSituationIdle
  /\ PlayByPlayIdle
  /\ ClientIdle
  /\ ConcurrentIdle

SpecTeamStats == TeamStatsInit /\ [][TeamStatsNext]_vars

\* A PlayByPlay without plays.
PlayByPlayInit ==
  /\ pbp = NoPlays
  /\ rres = RNoResult
  /\ EnumIdle
  /\ SeasonIdle
  /\ GameIDIdle
  /\ GameDateIdle
  /\ GameSituationIdle
  /\ TeamStatsIdle
  /\ ClientIdle
  /\ ConcurrentIdle

SpecPlayByPlay == PlayByPlayInit /\ [][PlayByPlayNext]_vars

\* A client that has made no call.
ClientInit ==
  /\ cl = NoCall
  /\ reqs = <<>>
  /\ EnumIdle
  /\ SeasonIdle
  /\ GameIDIdle
  /\ GameDateIdle
  /\ GameSituationIdle
  /\ TeamStatsIdle
  /\ PlayByPlayIdle
  /\ ConcurrentIdle

SpecClient == ClientInit /\ [][ClientNext]_vars

\* A GameDate variable that every goroutine can reach; no goroutine
\* started yet.
ConcurrentInit ==
  /\ \E d \in SharedDates : mem = [cur |-> d, init |-> d]
  /\ gor = [g \in Goroutines |-> IdleGoroutine]
  /\ EnumIdle
  /\ SeasonIdle
  /\ GameIDIdle
  /\ GameDateIdle
  /\ GameSituationIdle
  /\ TeamStatsIdle
  /\ PlayByPlayIdle
  /\ ClientIdle

SpecConcurrent == ConcurrentInit /\ [][ConcurrentNext]_vars

(***************************************************************************)
(* Claims                                                                  *)
(***************************************************************************)

\* C1 (as stated): after MarshalJSON of a value outside its type's known
\* set, an error was returned, unless the value is the empty Handedness or
\* the empty DefendingSide.
C1_AsStated ==
  (/\ eres.op = "Marshal"
   /\ ev.val \notin EnumKnown(ev.type)
   /\ ~(ev.type \in {"Handedness", "DefendingSide"} /\ ev.val = ""))
    => eres.err

\* C1 (amended): MarshalJSON of a value outside the known set returns an
\* error for every type except Handedness; Handedness.MarshalJSON never
\* fails and emits the raw string of any value, and the empty DefendingSide
\* serializes to "" without error.
C1_MarshalUnknownFails ==
  eres.op = "Marshal" =>
    IF ev.type = "Handedness"
    THEN ~eres.err /\ eres.data = StrTok(ev.val)
    ELSE IF ev.type = "DefendingSide" /\ ev.val = ""
    THEN ~eres.err /\ eres.data = StrTok("")
    ELSE (ev.val \notin EnumKnown(ev.type)) => eres.err

C1_Witness ==
  /\ eres.op = "Marshal"
  /\ ev.type = "Position"
  /\ ev.val = "INVALID"
  /\ eres.err

\* C2 (as stated): for Handedness and DefendingSide, MarshalJSON of the
\* empty value yields "" without error, and UnmarshalJSON of "" succeeds and
\* leaves the empty value.
C2_AsStated ==
  /\ (/\ eres.op = "Marshal"
      /\ ev.type \in {"Handedness", "DefendingSide"}
      /\ ev.val = "")
       => (~eres.err /\ eres.data = StrTok(""))
  /\ (/\ eres.op = "Unmarshal"
      /\ ev.type \in {"Handedness", "DefendingSide"}
      /\ eres.data = StrTok(""))
       => (~eres.err /\ ev.val = "")

\* C3 (as stated): FromYears returns an error unless end == start + 1, so
\* every Season returned by FromYears, Parse, SeasonFromInt or
\* Season.UnmarshalJSON came from an end year one greater than its start
\* year.
C3_AsStated ==
  (/\ sres.op \in {"FromYears", "Parse", "SeasonFromInt", "UnmarshalJSON"}
   /\ ~sres.err)
    => sres.end = sres.start + 1

\* C4 (as stated): for every Season s that NewSeason, FromYears, Parse or
\* SeasonFromInt returned, SeasonFromInt(s.ToInt()) and
\* Parse(s.ToAPIString()) succeed and return s.
C4_AsStated == sres.fed => (~sres.err /\ sres.val = sres.src)

\* C4 (amended): for every Season s whose start year lies in 1000..9998,
\* SeasonFromInt(s.ToInt()) and Parse(s.ToAPIString()) succeed and return s.
C4_RoundTrip ==
  (sres.fed /\ sres.src.startYear \in 1000 .. 9998)
    => (~sres.err /\ sres.val = sres.src /\ season = sres.src)

C4_Witness ==
  /\ sres.fed
  /\ sres.op = "SeasonFromInt"
  /\ sres.src = NewSeason(2023)
  /\ sres.out = 20232024
  /\ ~sres.err
  /\ season = NewSeason(2023)

\* Exactly ten decimal digits, read off the decimal representation.
HasTenDigits(g) == ~g.neg /\ Len(GameIDString(g)) = 10

\* Digits 5-6 of a ten-digit id.
TypeSegment(g) == DigitsValue(SubSeq(GameIDString(g), 5, 6))

\* C5: Validate returns nil if and only if the id has exactly 10 decimal
\* digits and its two-digit game-type segment is one of 1, 2, 3, 4, 9, 10,
\* 12, 19, 20.
C5_ValidateIff ==
  "Validate" \in gres.called =>
    (~gres.vErr <=>
       (HasTenDigits(gid) /\ TypeSegment(gid) \in EnumKnown("GameType")))

C5_Witness ==
  /\ gres.op = "UnmarshalJSON"
  /\ "Validate" \in gres.called
  /\ ~gres.vErr
  /\ gid = I64(FALSE, 202302, 1)

\* C6: for every id with exactly 10 digits Season, GameType and GameNumber
\* each succeed, also when Validate fails on an unknown game type; for
\* every id outside the 10-digit range all three return an error.
C6_DecomposeIndependent ==
  /\ "Season" \in gres.called => (gres.sErr <=> ~HasTenDigits(gid))
  /\ "GameType" \in gres.called => (gres.tErr <=> ~HasTenDigits(gid))
  /\ "GameNumber" \in gres.called => (gres.nErr <=> ~HasTenDigits(gid))

C6_Witness ==
  /\ gid = I64(FALSE, 202305, 1)
  /\ gres.called = GameIDCalls
  /\ gres.vErr
  /\ ~gres.sErr /\ gres.sVal = NewSeason(2023)
  /\ ~gres.tErr /\ gres.tVal = 5
  /\ ~gres.nErr /\ gres.nVal = 1

\* A wire value is a decimal number: an optional sign and at least one
\* decimal digit, within int64.
IsDecimalInt64(s) ==
  \E k \in 0 .. 1 :
    /\ Len(s) > k
    /\ k = 1 => s[1] \in {"+", "-"}
    /\ AllDigits(SubSeq(s, k + 1, Len(s)))
    /\ FitsInt64(k = 1 /\ s[1] = "-", SubSeq(s, k + 1, Len(s)))

IsDecimalWire(data) ==
  \/ data.k = "num"
  \/ data.k = "str" /\ IsDecimalInt64(data.s)

IsDecode == gres.op \in {"UnmarshalJSON", "GameIDFromString"}

\* C7 (as stated): decoding a GameID returns an error whenever the wire
\* value is not a decimal number or does not have exactly 10 decimal
\* digits.
C7_AsStated ==
  IsDecode =>
    ((~IsDecimalWire(gres.in) \/ ~HasTenDigits(gres.val)) => gres.err)

\* C7 (amended): decoding returns an error exactly when the wire value is
\* not a decimal integer (null decodes to 0) and then leaves the GameID as
\* it was; the digit count is not checked by the decoders: a decimal value
\* of another length is decoded, and Validate, Season, GameType and
\* GameNumber report it.
C7_DecodeReports ==
  IsDecode =>
    /\ gres.err <=> ~(IsDecimalWire(gres.in) \/ gres.in.k = "null")
    /\ gres.err => gid = gres.old
    /\ gres.in.k = "null" => gid = I64Zero
    /\ gres.in.k = "num" => gid = gres.in.n
    /\ (~gres.err /\ ~HasTenDigits(gid)) =>
         /\ "Validate" \in gres.called => gres.vErr
         /\ "Season" \in gres.called => gres.sErr
         /\ "GameType" \in gres.called => gres.tErr
         /\ "GameNumber" \in gres.called => gres.nErr

C7_Witness ==
  /\ gres.op = "GameIDFromString"
  /\ gres.in = StrTok(<<"1", "2", "3">>)
  /\ ~gres.err
  /\ gid = I64(FALSE, 0, 123)
  /\ gres.called = GameIDCalls
  /\ gres.vErr /\ gres.sErr /\ gres.tErr /\ gres.nErr

\* startYear * 1000000 + gameType * 10000 + gameNumber as an int64.
Recombine(startYear, gameType, gameNumber) ==
  I64(FALSE, (startYear * 100) + gameType + (gameNumber \div Limb),
      gameNumber % Limb)

\* C8: for every GameID that passes Validate,
\* Season().StartYear() * 1000000 + GameType() * 10000 + GameNumber()
\* equals the id.
C8_Recombine ==
  (gres.called = GameIDCalls /\ ~gres.vErr) =>
    /\ ~gres.sErr /\ ~gres.tErr /\ ~gres.nErr
    /\ Recombine(StartYear(gres.sVal), gres.tVal, gres.nVal) = gid

C8_Witness ==
  /\ gres.called = GameIDCalls
  /\ ~gres.vErr
  /\ gid = I64(FALSE, 999904, 9999)
  /\ gres.sVal = NewSeason(9999) /\ gres.tVal = 4 /\ gres.nVal = 9999

\* The two shapes of C9: "YYYY-YYYY" and "YYYYYYYY", end year == start
\* year + 1.
IsDashedSeason(s) ==
  /\ Len(s) = 9
  /\ s[5] = "-"
  /\ AllDigits(SubSeq(s, 1, 4))
  /\ AllDigits(SubSeq(s, 6, 9))
  /\ DigitsValue(SubSeq(s, 6, 9)) = DigitsValue(SubSeq(s, 1, 4)) + 1

IsConcatSeason(s) ==
  /\ Len(s) = 8
  /\ AllDigits(s)
  /\ DigitsValue(SubSeq(s, 5, 8)) = DigitsValue(SubSeq(s, 1, 4)) + 1

\* C9 (as stated): Parse succeeds only on "YYYY-YYYY" or "YYYYYYYY" with
\* end year == start year + 1; every other string returns an error.
C9_AsStated ==
  sres.op = "Parse" =>
    (~sres.err => (IsDashedSeason(sres.out) \/ IsConcatSeason(sres.out)))

\* A string of exactly three dash-delimited segments, each a decimal
\* integer: an optional sign and decimal digits, within the range of int.
ThreeNumericSegments(s) ==
  LET dashes == {i \in 1 .. Len(s) : s[i] = "-"} IN
  /\ Cardinality(dashes) = 2
  /\ LET i == CHOOSE k \in dashes : \A j \in dashes : k <= j
         j == CHOOSE k \in dashes : \A l \in dashes : l <= k
     IN /\ IsDecimalInt64(SubSeq(s, 1, i - 1))
        /\ IsDecimalInt64(SubSeq(s, i + 1, j - 1))
        /\ IsDecimalInt64(SubSeq(s, j + 1, Len(s)))

\* C10: GameDate.UnmarshalJSON succeeds exactly on the string "now" and on
\* strings of three dash-delimited numeric segments (decoded through
\* FromYMD); every other value returns an error and leaves the GameDate as
\* it was.
C10_UnmarshalShape ==
  dres.op = "UnmarshalJSON" =>
    /\ ~dres.err <=>
         /\ dres.in.k = "str"
         /\ dres.in.s = NowString \/ ThreeNumericSegments(dres.in.s)
    /\ dres.err => gd = dres.old
    /\ (~dres.err /\ dres.in.s = NowString) => gd = Now
    /\ (~dres.err /\ dres.in.s # NowString) => ~IsNow(gd)

C10_Witness ==
  /\ dres.op = "UnmarshalJSON"
  /\ dres.in = StrTok(<<"2", "0", "2", "4", "-", "0", "1", "-", "1", "5">>)
  /\ ~dres.err
  /\ dres.old = Now
  /\ gd = FromYMD(2024, 1, 15)

\* The shape YYYY-MM-DD: ten characters, dashes at 5 and 8, digits
\* elsewhere.
IsDateShaped(s) ==
  /\ Len(s) = 10
  /\ s[5] = "-" /\ s[8] = "-"
  /\ AllDigits(SubSeq(s, 1, 4))
  /\ AllDigits(SubSeq(s, 6, 7))
  /\ AllDigits(SubSeq(s, 9, 10))

\* C11: after one or more AddDays calls, starting from any GameDate, the
\* GameDate is concrete (IsNow() == false) and its String and MarshalJSON
\* are a date, never "now"; AddDays on Now() starts from the clock of the
\* call, AddDays on a concrete date from the stored date.
C11_AddDaysConcrete ==
  dres.adds > 0 =>
    /\ ~IsNow(gd)
    /\ GameDateString(gd, clock) # NowString
    /\ GameDateMarshalJSON(gd, clock).data # StrTok(NowString)
    /\ dres.op \in {"String", "MarshalJSON"} =>
         /\ dres.out # NowString
         /\ dres.out = GameDateToAPIString(gd, clock)
         /\ CivilFromDays(gd.date \div TicksPerDay).year \in 0 .. 9999 =>
              IsDateShaped(dres.out)
    /\ dres.op = "AddDays" =>
         gd.date = (IF dres.old.isNow THEN dres.at ELSE dres.old.date)
                     + (dres.n * TicksPerDay)

C11_Witness ==
  /\ dres.op = "AddDays"
  /\ dres.old = Now
  /\ dres.n = 1
  /\ dres.at = TimeDate(2024, 2, 29) - 1
  /\ gd = [isNow |-> FALSE, date |-> TimeDate(2024, 3, 1) - 1]

\* C12: every Date() and ToAPIString() call on a Now() value returns the
\* wall clock of that call, so a later call at a later clock returns a
\* later instant; on a concrete GameDate every call returns the stored
\* date, whatever the clock.
C12_NowReadsClock ==
  /\ \A o \in dres.obs :
       LET t == IF gd.isNow THEN o.at ELSE gd.date IN
       /\ o.t = t
       /\ o.s = GameDateToAPIString([isNow |-> FALSE, date |-> t], 0)
  /\ \A o1, o2 \in dres.obs :
       IF gd.isNow THEN o1.at < o2.at => o1.t < o2.t
       ELSE o1.t = o2.t /\ o1.s = o2.s
  /\ Now.date = ZeroTime

C12_Witness ==
  /\ gd = Now
  /\ dres.op = "Now"
  /\ \E o1, o2 \in dres.obs :
       /\ o1.at < o2.at
       /\ o1.t < o2.t
       /\ o1.s = <<"2", "0", "2", "4", "-", "0", "2", "-", "2", "8">>
       /\ o2.s = <<"2", "0", "2", "4", "-", "0", "2", "-", "2", "9">>

\* C13: for every enumerated type and every value v of its known set,
\* unmarshalling the output of MarshalJSON(v) into a fresh variable, and
\* the FromString parser applied to v's own string, succeed and return v.
C13_RoundTrip ==
  (/\ eres.op \in {"RoundTrip", "FromString"}
   /\ ev.val \in EnumKnown(ev.type))
    => (~eres.err /\ eres.val = ev.val)

C13_Witness ==
  /\ eres.op = "RoundTrip"
  /\ ev.type = "GameType"
  /\ ev.val = 20
  /\ eres.data = NumTok(20)
  /\ ~eres.err
  /\ eres.val = 20

\* C14: every classification predicate returns false for a value outside
\* the known set of its type, and Position.IsSkater returns false for the
\* goalie.
C14_UnknownClassifiedFalse ==
  eres.op = "Classify" =>
    /\ ev.val \notin EnumKnown(ev.type) => eres.true = {}
    /\ (ev.type = "Position" /\ ev.val = "G") => "IsSkater" \notin eres.true

C14_Witness ==
  /\ eres.op = "Classify"
  /\ ev.type = "Position"
  /\ ev.val = "INVALID"
  /\ eres.true = {}

\* s ends with the characters of suffix.
EndsWith(s, suffix) ==
  /\ Len(s) >= Len(suffix)
  /\ SubSeq(s, Len(s) - Len(suffix) + 1, Len(s)) = suffix

C16_EmptyNetFirst ==
  cres.op = "StrengthDescription" =>
    LET base == FormatInt(sit.AwaySkaters) \o <<"v">>
                  \o FormatInt(sit.HomeSkaters)
        bothIn == sit.AwayGoalieIn /\ sit.HomeGoalieIn
        differ == sit.AwaySkaters # sit.HomeSkaters
    IN /\ ~bothIn => cres.out = base \o <<" ", "E", "N">>
       /\ (bothIn /\ differ) => cres.out = base \o <<" ", "P", "P">>
       /\ (bothIn /\ ~differ) => cres.out = base
       /\ EndsWith(cres.out, <<" ", "P", "P">>) <=> (bothIn /\ differ)
       /\ EndsWith(cres.out, <<" ", "E", "N">>) <=> ~bothIn

C16_Witness ==
  /\ cres.op = "StrengthDescription"
  /\ cres.code = <<"0", "6", "4", "1">>
  /\ cres.out = <<"6", "v", "4", " ", "E", "N">>

\* The sum of one field over a list of box score lines.
RECURSIVE SumField(_, _)
SumField(lines, field) ==
  IF lines = <<>> THEN 0 ELSE Head(lines)[field] + SumField(Tail(lines), field)

\* The penalty minutes of the goalies whose PIM is present.
RECURSIVE SumGoaliePIM(_)
SumGoaliePIM(goalies) ==
  IF goalies = <<>> THEN 0
  ELSE (IF Head(goalies).PIM.nil THEN 0 ELSE Head(goalies).PIM.v)
         + SumGoaliePIM(Tail(goalies))

\* C17: the totals FromTeamPlayerStats returns hold, for shots on goal,
\* power-play goals, hits, blocked shots, giveaways and takeaways, the sum
\* of the field over all forwards and all defensemen; penalty minutes are
\* that sum plus the PIM of every goalie whose PIM is present; an empty
\* team gives all-zero totals.
C17_SkaterSums ==
  tres.op = "FromTeamPlayerStats" =>
    LET skaters == team.Forwards \o team.Defense IN
    /\ tstats.ShotsOnGoal = SumField(skaters, "SOG")
    /\ tstats.PowerPlayGoals = SumField(skaters, "PowerPlayGoals")
    /\ tstats.PenaltyMinutes =
         SumField(skaters, "PIM") + SumGoaliePIM(team.Goalies)
    /\ tstats.Hits = SumField(skaters, "Hits")
    /\ tstats.BlockedShots = SumField(skaters, "BlockedShots")
    /\ tstats.Giveaways = SumField(skaters, "Giveaways")
    /\ tstats.Takeaways = SumField(skaters, "Takeaways")
    /\ team = NoTeam => \A f \in DOMAIN tstats : tstats[f] = 0

C17_Witness ==
  /\ tres.op = "FromTeamPlayerStats"
  /\ Len(team.Forwards) = 2
  /\ Len(team.Defense) = 1
  /\ Len(team.Goalies) = 1
  /\ team.Forwards[1].Position = "C" /\ team.Forwards[2].Position = "LW"
  /\ team.Defense[1].Position = "D" /\ team.Defense[1].PIM = 4
  /\ ~team.Goalies[1].PIM.nil /\ team.Goalies[1].PIM.v = 2
  /\ tstats.ShotsOnGoal = 10
  /\ tstats.PenaltyMinutes = 12
  /\ tstats.Hits = 19

\* The integer nearest to shifts * pctg / PctgScale, the upper one of two
\* equally near.
Nearest(shifts, pctg) ==
  CHOOSE n \in 0 .. (shifts * pctg) + 1 :
    LET twice == 2 * ((PctgScale * n) - (shifts * pctg)) IN
    0 - PctgScale < twice /\ twice <= PctgScale

\* What one skater adds to the faceoff totals.
RECURSIVE SumFaceoffs(_, _)
SumFaceoffs(lines, wins) ==
  IF lines = <<>> THEN 0
  ELSE LET s == Head(lines)
           counted == s.Position = "C" /\ s.FaceoffWinningPctg > 0
           share == IF ~counted THEN 0
                    ELSE IF wins THEN Nearest(s.Shifts, s.FaceoffWinningPctg)
                    ELSE s.Shifts
       IN share + SumFaceoffs(Tail(lines), wins)

\* C18: only a skater at center with a positive faceoff-win percentage
\* counts in the faceoff estimate; it adds its shift count to FaceoffTotal
\* and shifts x percentage, rounded to the nearest integer, to FaceoffWins;
\* every other skater adds 0 to both.
C18_FaceoffEstimate ==
  tres.op = "FromTeamPlayerStats" =>
    LET skaters == team.Forwards \o team.Defense IN
    /\ tstats.FaceoffTotal = SumFaceoffs(skaters, FALSE)
    /\ tstats.FaceoffWins = SumFaceoffs(skaters, TRUE)

C18_Witness ==
  /\ tres.op = "FromTeamPlayerStats"
  /\ Len(team.Forwards) = 2 /\ Len(team.Defense) = 1
  /\ team.Forwards[1].Position = "C"
  /\ team.Forwards[1].Shifts = 27 /\ team.Forwards[1].FaceoffWinningPctg = 55
  /\ team.Forwards[2].Position = "LW"
  /\ team.Forwards[2].FaceoffWinningPctg = 60
  /\ team.Defense[1].Position = "D"
  /\ team.Defense[1].FaceoffWinningPctg = 50
  /\ tstats.FaceoffTotal = 27
  /\ tstats.FaceoffWins = 15

\* C19: FaceoffPercentage returns 0.0 when FaceoffTotal is zero and
\* PowerPlayPercentage returns 0.0 when PowerPlayOpportunities is zero, and
\* for every TeamGameStats value the result is a finite quotient: no
\* division by zero, no NaN, no infinity.
C19_ZeroDenominator ==
  tres.op \in {"FaceoffPercentage", "PowerPlayPercentage"} =>
    /\ tres.pct.kind = "num"
    /\ tres.pct.d # 0
    /\ (tres.op = "FaceoffPercentage" /\ tstats.FaceoffTotal = 0)
         => tres.pct.n = 0
    /\ (tres.op = "PowerPlayPercentage" /\ tstats.PowerPlayOpportunities = 0)
         => tres.pct.n = 0

C19_Witness ==
  /\ tres.op = "FaceoffPercentage"
  /\ tstats.FaceoffTotal = 0
  /\ tstats.FaceoffWins = 3
  /\ tres.pct = [kind |-> "num", n |-> 0, d |-> 1]

C25_AsStated ==
  ({"Validate", "Season", "Wire"} \subseteq gres.called /\ ~gres.vErr) =>
    /\ Len(gres.wStr) = 8
    /\ AllDigits(gres.wStr)
    /\ ~gres.wErr
    /\ gres.wVal = gres.sVal

C27_AsStated ==
  (dres.op = "MarshalJSON" /\ dres.in.k = "str" /\ ~dres.err) =>
    dres.out = dres.in.s


\* C28: after FromTeamPlayerStats on an input where every skater has
\* Shifts >= 0 and FaceoffWinningPctg in [0, 1], FaceoffWins is at most
\* FaceoffTotal and FaceoffPercentage() lies in [0, 100].
C28_FaceoffBounds ==
  LET skaters == team.Forwards \o team.Defense
      pct == FaceoffPercentage(tstats)
  IN (/\ tres.calls > 0
      /\ \A i \in 1 .. Len(skaters) :
           /\ skaters[i].Shifts >= 0
           /\ skaters[i].FaceoffWinningPctg \in 0 .. PctgScale) =>
       /\ tstats.FaceoffWins <= tstats.FaceoffTotal
       /\ pct.kind = "num" /\ pct.d > 0
       /\ 0 <= pct.n /\ pct.n <= 100 * pct.d
       /\ tres.op = "FaceoffPercentage" => tres.pct = pct

C28_Witness ==
  /\ tres.op = "FaceoffPercentage"
  /\ Len(team.Forwards) = 1 /\ Len(team.Defense) = 1
  /\ team.Forwards[1].Position = "C"
  /\ team.Forwards[1].Shifts = 10 /\ team.Forwards[1].FaceoffWinningPctg = 45
  /\ team.Defense[1].Position = "C"
  /\ team.Defense[1].Shifts = 25
  /\ team.Defense[1].FaceoffWinningPctg = PctgScale
  /\ tstats.FaceoffTotal = 35 /\ tstats.FaceoffWins = 30
  /\ tres.pct = Float(3000, 35)

\* C30: RecentPlays(n) returns exactly min(n, len(Plays)) plays ordered
\* from the most recent backwards (element i is Plays[len(Plays)-1-i]),
\* returns no plays when n <= 0 or Plays is empty, and leaves Plays
\* unchanged.
C30_RecentPlays ==
  rres.op = "RecentPlays" =>
    LET n == rres.count
        len == Len(pbp.Plays)
        recent == rres.recent.elems
    IN /\ Len(recent) =
            IF n <= 0 \/ len = 0 THEN 0 ELSE IF n < len THEN n ELSE len
       /\ \A i \in 0 .. Len(recent) - 1 :
            /\ recent[i + 1] = PlayPtr(len - 1 - i)
            /\ PlayAt(pbp, recent[i + 1]) = pbp.Plays[(len - 1 - i) + 1]
       /\ pbp = rres.before

C30_Witness ==
  /\ rres.op = "RecentPlays"
  /\ rres.count = 2
  /\ pbp.Plays = <<1, 2, 3>>
  /\ Len(rres.recent.elems) = 2
  /\ PlayAt(pbp, rres.recent.elems[1]) = 3
  /\ PlayAt(pbp, rres.recent.elems[2]) = 2

\* The API string of a calendar day, as ToAPIString formats it.
DateString(year, month, day) ==
  GameDateToAPIString(FromYMD(year, month, day), 0)

\* The error type the specification names for a status, "" where it names
\* none.
StatusErrorType(statusCode) ==
  CASE statusCode = 400 -> "BadRequestError"
    [] statusCode = 401 -> "UnauthorizedError"
    [] statusCode = 404 -> "ResourceNotFoundError"
    [] statusCode = 429 -> "RateLimitExceededError"
    [] statusCode >= 500 -> "ServerError"
    [] OTHER -> ""

\* C21: ErrorFromStatusCode returns BadRequestError for 400,
\* UnauthorizedError for 401, ResourceNotFoundError for 404,
\* RateLimitExceededError for 429 and ServerError for every status >= 500,
\* five pairwise different types, and getJSON returns exactly this error
\* for a response with such a status.
C21_StatusErrors ==
  /\ (cl.pc = "done" /\ StatusErrorType(cl.status) # "") =>
       /\ cl.err.type = StatusErrorType(cl.status)
       /\ cl.err.error.StatusCode = cl.status
       /\ cl.method # "ErrorFromStatusCode" =>
            cl.err = ErrorFromStatusCode(
                       cl.status, Message("Request to %s failed", cl.resource))
  /\ Cardinality({ErrorFromStatusCode(s, Message("", NoResource)).type :
                    s \in {400, 401, 404, 429, 500}}) = 5

C21_Witness ==
  /\ cl.method = "getJSON"
  /\ cl.pc = "done"
  /\ cl.status = 503
  /\ cl.err.type = "ServerError"
  /\ Len(reqs) = 1

\* C22: a getJSON failure that is not an HTTP status error wraps its
\* cause: a request that cannot be built or executed, or whose body cannot
\* be read, yields a RequestError, a body that does not decode yields a
\* JSONError, the cause is reachable through Unwrap, and the error is never
\* one of the HTTP-status types.
C22_ClientFailuresWrap ==
  (cl.pc = "done" /\ cl.fail \in {"build", "transport", "read", "decode"}) =>
    /\ cl.err.type =
         IF cl.fail = "decode" THEN "JSONError" ELSE "RequestError"
    /\ cl.cause # NilError
    /\ Unwrap(cl.err) # NilError
    /\ ErrorsIs(cl.err, cl.cause)
    /\ cl.err.type \notin
         {"BadRequestError", "UnauthorizedError", "ResourceNotFoundError",
          "RateLimitExceededError", "ServerError", "APIError"}

C22_Witness ==
  /\ cl.method = "getJSON"
  /\ cl.pc = "done"
  /\ cl.fail = "read"
  /\ cl.status = 200
  /\ cl.cause = Cause("unexpected EOF")
  /\ cl.err.type = "RequestError"
  /\ Unwrap(Unwrap(cl.err)) = Cause("unexpected EOF")

\* C24: LeagueStandingsForSeason requests the season manifest first; only
\* if that request succeeds and the manifest contains the season does it
\* issue exactly one standings request, for the StandingsEnd date of that
\* season; otherwise it returns an error without a standings request.
C24_RequestOrder ==
  cl.method = "LeagueStandingsForSeason" =>
    LET listed == {i \in 1 .. Len(cl.seasons) : cl.seasons[i].ID = cl.season}
    IN /\ Len(reqs) <= 2
       /\ Len(reqs) >= 1 => reqs[1] = Resource("standings-season", <<>>)
       /\ cl.pc = "await" => Len(reqs) >= 1
       /\ Len(reqs) = 2 =>
            /\ listed # {}
            /\ \E i \in listed :
                 /\ \A j \in listed : i <= j
                 /\ reqs[2] =
                      Resource("standings/%s",
                               GameDateString(cl.seasons[i].StandingsEnd, 0))
       /\ (cl.pc = "done" /\ listed = {}) =>
            (Len(reqs) <= 1 /\ cl.err # NilError)
       /\ (cl.pc = "done" /\ listed # {}) => Len(reqs) = 2

C24_Witness ==
  /\ cl.method = "LeagueStandingsForSeason"
  /\ cl.pc = "done"
  /\ cl.season = NewSeason(2023)
  /\ Len(cl.seasons) = 2
  /\ cl.seasons[1].ID = NewSeason(2023)
  /\ cl.seasons[2].ID = NewSeason(2023)
  /\ cl.seasons[1].StandingsEnd = FromYMD(2024, 4, 18)
  /\ cl.seasons[2].StandingsEnd = FromYMD(2024, 6, 30)
  /\ reqs = <<Resource("standings-season", <<>>),
              Resource("standings/%s", DateString(2024, 4, 18))>>
  /\ cl.err = NilError
  /\ cl.standings = <<"TOR", "MTL">>

\* C29: the daily schedule extracted by extractDailySchedule (used by
\* DailySchedule) has Date equal to the requested string, Games equal to
\* the games of the first GameWeek entry with that date (an empty, non-nil
\* list when no entry matches) and NumberOfGames == len(Games).
C29_DailyExtract ==
  (/\ cl.method \in {"extractDailySchedule", "DailySchedule"}
   /\ cl.pc = "done"
   /\ cl.err = NilError) =>
    LET week == cl.weekly.GameWeek
        days == {i \in 1 .. Len(week) : week[i].Date = cl.dateString}
    IN /\ cl.daily.Date = cl.dateString
       /\ days = {} => cl.daily.Games = Games(<<>>)
       /\ \A i \in days :
            (\A j \in days : i <= j) =>
              cl.daily.Games.elems = week[i].Games.elems
       /\ ~cl.daily.Games.nil
       /\ cl.daily.NumberOfGames = Len(cl.daily.Games.elems)

C29_Witness ==
  /\ cl.method = "DailySchedule"
  /\ cl.pc = "done"
  /\ cl.err = NilError
  /\ cl.dateString = DateString(2024, 1, 8)
  /\ Len(cl.weekly.GameWeek) = 2
  /\ cl.weekly.GameWeek[1] =
       GameDay(DateString(2024, 1, 8), Games(<<2, 3>>))
  /\ cl.weekly.GameWeek[2] = GameDay(DateString(2024, 1, 8), Games(<<1>>))
  /\ cl.daily.Games = Games(<<2, 3>>)
  /\ cl.daily.NumberOfGames = 2
  /\ reqs = <<Resource("schedule/%s", DateString(2024, 1, 8))>>

\* The orders in which the calls of the goroutines in S can be put.
RECURSIVE Orders(_)
Orders(S) ==
  IF S = {} THEN {<<>>}
  ELSE UNION {{<<g>> \o o : o \in Orders(S \ {g})} : g \in S}

\* Every call of the order returns what it returns when the calls run one
\* after the other, in that order, on the variable holding s.
RECURSIVE ReturnsAsInOrder(_, _)
ReturnsAsInOrder(order, s) ==
  IF order = <<>> THEN TRUE
  ELSE LET g == gor[Head(order)]
           alone == Alone(g.call, s, clock)
       IN /\ g.out.str = alone.out.str
          /\ g.out.err = alone.out.err
          /\ g.call.op # "UnmarshalJSON" => g.out.val = alone.out.val
          /\ ReturnsAsInOrder(Tail(order), alone.next)

Started == {g \in Goroutines : gor[g].pc # "idle"}

AllReturned == Started # {} /\ \A g \in Started : gor[g].pc = "done"

\* C23 (as stated): whatever operations of the same GameDate the
\* goroutines call concurrently, every call returns what it would return
\* in some sequential order.
C23_AsStated ==
  AllReturned =>
    \E order \in Orders(Started) : ReturnsAsInOrder(order, mem.init)

\* C23 (amended): when no goroutine calls UnmarshalJSON on the variable
\* while another goroutine calls any method of it, every call returns what
\* it would return in some sequential order, and calls of value-receiver
\* methods and constructors leave the variable as it was.
C23_NoWriterLinearizable ==
  LET decoding == {g \in Started : gor[g].call.op = "UnmarshalJSON"}
      using == {g \in Started : gor[g].call.op # "FromYMD"}
  IN (AllReturned /\ (decoding = {} \/ Cardinality(using) = 1)) =>
       /\ \E order \in Orders(Started) : ReturnsAsInOrder(order, mem.init)
       /\ decoding = {} => mem.cur = mem.init

C23_Witness ==
  /\ AllReturned
  /\ mem.init = Now
  /\ gor[1].call.op = "String"
  /\ gor[1].out.str = NowString
  /\ gor[2].call.op = "AddDays"
  /\ ~gor[2].out.val.isNow
  /\ mem.cur = Now

====
